---------------------------- MODULE Spec2Model ----------------------------
(***************************************************************************)
(* A model of the dated-backup synchronization engine of rust_pocs:        *)
(*   - synchronize_partially  (src/bin_from_ninja/synchronize_partially)   *)
(*   - synchronize_backup     (src/bin_from_ninja/synchronize_backup)      *)
(* The tools act on a POSIX file system, which is part of the state.  A    *)
(* path is a string, as in the code; the file system maps canonical paths  *)
(* (sequences of names, from the root, free of symlinks) to entries.       *)
(***************************************************************************)
EXTENDS Integers, Sequences, FiniteSets, TLC

VARIABLES
    fs,        \* the file system: canonical path -> entry
    fs0,       \* the file system when the current run started (history)
    tool,      \* which program runs: "partial" | "backup"
    args,      \* the arguments of the current call of `work`
    pc,        \* the position of the run in `work`
    actions,   \* synchronize_partially: the Vec<Action> that planning built
    idx,       \* synchronize_partially: index of the action being consumed
    final,     \* synchronize_backup: final_dst_path
    candidates,\* synchronize_backup: the Vec<PathBuf> of get_candidates
    result,    \* the value `work` returned: "running", "ok" or an error
    trace,     \* the file-system mutations and external calls made, in order
    runs,      \* number of calls of `work` completed so far
    race,      \* two runs of synchronize_backup at once: the state of each run
    ren,       \* the renamer (src/coroutine): its driver and its coroutine
    pool       \* the thread pool (src/structured_concurrency) and its threads

vars == <<fs, fs0, tool, args, pc, actions, idx, final, candidates, result, trace, runs,
          race, ren, pool>>

\* Each program is modelled on its own variables; a run of one leaves the
\* variables of the others as they are.
engine == <<fs, fs0, tool, args, pc, actions, idx, final, candidates, result, trace, runs>>
NotStarted == <<>>

-----------------------------------------------------------------------------
(* Bounds of the model. *)

MaxSubpaths == 2      \* longest subpath list given to synchronize_partially
MaxRuns == 2          \* calls of `work` made one after the other
MaxHops == 3          \* symlinks followed in one resolution before ELOOP

-----------------------------------------------------------------------------
(* Paths as the code sees them: strings.  std::path::Path::components and  *)
(* the kernel agree on how a string splits into components: separators     *)
(* repeat freely, "." and empty components are skipped, ".." is kept.      *)

RECURSIVE SplitFrom(_, _, _)
SplitFrom(s, i, cur) ==
    IF i > Len(s)
    THEN IF cur = "" THEN <<>> ELSE <<cur>>
    ELSE LET c == SubSeq(s, i, i) IN
         IF c = "/"
         THEN (IF cur = "" THEN <<>> ELSE <<cur>>) \o SplitFrom(s, i + 1, "")
         ELSE SplitFrom(s, i + 1, cur \o c)

Components(s) == SelectSeq(SplitFrom(s, 1, ""), LAMBDA c : c # ".")

\* Path::is_absolute / Path::is_relative on Unix: a leading separator.
IsAbsolute(s) == Len(s) > 0 /\ SubSeq(s, 1, 1) = "/"
IsRelative(s) == ~IsAbsolute(s)

EndsWithSlash(s) == Len(s) > 0 /\ SubSeq(s, Len(s), Len(s)) = "/"

\* Path::join / Utf8Path::join (PathBuf::push): an absolute argument
\* replaces the base, otherwise a separator is added unless the base already
\* ends with one (or is empty).
Join(base, p) ==
    IF IsAbsolute(p) THEN p
    ELSE IF base = "" \/ EndsWithSlash(base) THEN base \o p
    ELSE base \o "/" \o p

\* Utf8Path::file_name: the last component when it is a normal one; None
\* when the path ends with ".." or has no component.
HasFileName(s) ==
    LET cs == Components(s) IN cs # <<>> /\ cs[Len(cs)] # ".."
FileName(s) == LET cs == Components(s) IN cs[Len(cs)]

-----------------------------------------------------------------------------
(* The file system.  The root <<>> is a directory and the working          *)
(* directory of the process, so relative and absolute strings resolve from *)
(* it.  Every entry's parent is a directory of the map (or the root).      *)

Dir == [kind |-> "dir", data |-> "", target |-> ""]
File(d) == [kind |-> "file", data |-> d, target |-> ""]
Link(t) == [kind |-> "link", data |-> "", target |-> t]

IsPrefix(p, q) == Len(p) <= Len(q) /\ SubSeq(q, 1, Len(p)) = p
Parent(p) == IF p = <<>> THEN <<>> ELSE SubSeq(p, 1, Len(p) - 1)
Exists(f, p) == p = <<>> \/ p \in DOMAIN f
KindAt(f, p) == IF p = <<>> THEN "dir" ELSE f[p].kind

\* The result of walking a path: st = "found" (an entry at canonical path
\* `at`), "absent" (nothing there, but the parent directory `Parent(at)`
\* exists, so an entry can be created at `at`) or "err" (ENOENT or ENOTDIR
\* on the way, or ELOOP).
Found(p) == [st |-> "found", at |-> p]
Absent(p) == [st |-> "absent", at |-> p]
Err == [st |-> "err", at |-> <<>>]

RECURSIVE Walk(_, _, _, _, _)
Walk(f, cur, comps, follow, hops) ==
    IF comps = <<>> THEN Found(cur)
    ELSE LET c == Head(comps)
             rest == Tail(comps)
             p == Append(cur, c)
         IN  IF c = ".." THEN Walk(f, Parent(cur), rest, follow, hops)
             ELSE IF p \notin DOMAIN f
             THEN (IF rest = <<>> THEN Absent(p) ELSE Err)
             ELSE IF f[p].kind = "dir" THEN Walk(f, p, rest, follow, hops)
             ELSE IF f[p].kind = "file"
             THEN (IF rest = <<>> THEN Found(p) ELSE Err)
             ELSE \* a symlink: its target is relative to its directory
                  IF rest = <<>> /\ ~follow THEN Found(p)
                  ELSE IF hops = 0 THEN Err
                  ELSE Walk(f, cur, Components(f[p].target) \o rest,
                            follow, hops - 1)

\* A trailing separator makes the kernel follow a final symlink and demand
\* a directory.
Resolve(f, s, follow) ==
    LET r == Walk(f, <<>>, Components(s), follow \/ EndsWithSlash(s), MaxHops) IN
    IF EndsWithSlash(s) /\ r.st = "found" /\ KindAt(f, r.at) # "dir" THEN Err
    ELSE r

\* fs::metadata (stat) and fs::symlink_metadata (lstat): "none" is Err(_).
Metadata(f, s) ==
    LET r == Resolve(f, s, TRUE) IN
    IF r.st = "found" THEN KindAt(f, r.at) ELSE "none"
SymlinkMetadata(f, s) ==
    LET r == Resolve(f, s, FALSE) IN
    IF r.st = "found" THEN KindAt(f, r.at) ELSE "none"

\* The entries at or under canonical path p, and the names directly in it.
Under(f, p) == {q \in DOMAIN f : IsPrefix(p, q)}
StrictlyUnder(f, p) == {q \in DOMAIN f : IsPrefix(p, q) /\ q # p}
Children(f, p) == {q[Len(q)] : q \in {x \in DOMAIN f : Parent(x) = p /\ x # <<>>}}

Restrict(f, S) == [q \in S |-> f[q]]
Without(f, S) == Restrict(f, DOMAIN f \ S)

\* The subtree under p as a map from relative paths, for comparing trees.
Subtree(f, p) ==
    [r \in {SubSeq(q, Len(p) + 1, Len(q)) : q \in StrictlyUnder(f, p)} |-> f[p \o r]]

-----------------------------------------------------------------------------
(* The system calls and the external tool the code relies on.  Each takes  *)
(* the file system and path strings and gives [ok, fs]: whether the call   *)
(* succeeded and the file system it leaves.                                *)

Ok(f) == [ok |-> TRUE, fs |-> f]
Fail(f) == [ok |-> FALSE, fs |-> f]

\* unlink(2): removes a file or the symlink itself, never a directory.
Unlink(f, s) ==
    LET r == Resolve(f, s, FALSE) IN
    IF r.st = "found" /\ r.at # <<>> /\ f[r.at].kind \in {"file", "link"}
    THEN Ok(Without(f, {r.at}))
    ELSE Fail(f)

\* std::fs::remove_dir_all: a symlink is unlinked (not followed), a
\* directory is removed with all it holds, anything else is an error.
RemoveDirAll(f, s) ==
    LET r == Resolve(f, s, FALSE) IN
    IF r.st # "found" \/ r.at = <<>> THEN Fail(f)
    ELSE IF f[r.at].kind = "link" THEN Ok(Without(f, {r.at}))
    ELSE IF f[r.at].kind = "dir" THEN Ok(Without(f, Under(f, r.at)))
    ELSE Fail(f)

\* std::fs::copy: the source must resolve to a regular file; the destination
\* is opened with O_CREAT | O_TRUNC, following symlinks: an existing file is
\* overwritten, a missing one created when its directory exists.
CopyTo(f, src, dst) ==
    LET s == Resolve(f, src, TRUE)
        d == Resolve(f, dst, TRUE)
    IN  IF s.st # "found" \/ KindAt(f, s.at) # "file" THEN Fail(f)
        ELSE IF d.st = "found" /\ KindAt(f, d.at) = "file"
        THEN Ok([f EXCEPT ![d.at] = File(f[s.at].data)])
        ELSE IF d.st = "absent" /\ ~EndsWithSlash(dst)
        THEN Ok([q \in DOMAIN f \cup {d.at} |->
                    IF q = d.at THEN File(f[s.at].data) ELSE f[q]])
        ELSE Fail(f)

\* The tree at directory sp copied over directory dp: what is under dp is
\* deleted (--delete) and every entry under sp is recreated under dp,
\* symlinks as symlinks with the same target text (-a).
Mirror(f, sp, dp) ==
    LET rels == {SubSeq(q, Len(sp) + 1, Len(q)) : q \in StrictlyUnder(f, sp)}
        copies == {dp \o r : r \in rels}
        kept == (DOMAIN f \ StrictlyUnder(f, dp)) \cup (IF dp = <<>> THEN {} ELSE {dp})
    IN  [q \in kept \cup copies |->
            IF q \in copies THEN f[sp \o SubSeq(q, Len(dp) + 1, Len(q))]
            ELSE IF q = dp THEN Dir
            ELSE f[q]]

\* The entry at sp, with all it holds, copied to dp in place of what is there.
Graft(f, sp, dp) ==
    LET copies == {dp \o SubSeq(q, Len(sp) + 1, Len(q)) : q \in Under(f, sp)}
        kept == DOMAIN f \ Under(f, dp)
    IN  [q \in kept \cup copies |->
            IF q \in copies THEN f[sp \o SubSeq(q, Len(dp) + 1, Len(q))] ELSE f[q]]

\* rsync -a --delete -- src dst.  dst is created with mkdir when nothing is
\* there (its parent must exist), used as it is when it is a directory or a
\* symlink to one, and is an error otherwise.  When src ends with a separator
\* it must resolve to a directory, whose content is mirrored in dst; when it
\* does not, the entry src itself (a symlink as a symlink) is copied into
\* dst under its own name.
Rsync(f, src, dst) ==
    LET s == Resolve(f, src, EndsWithSlash(src))
        dl == Resolve(f, dst, FALSE)
        d == Resolve(f, dst, TRUE)
        into == IF dl.st = "absent" THEN dl.at ELSE d.at
        made == IF dl.st = "absent"
                THEN [q \in DOMAIN f \cup {dl.at} |-> IF q = dl.at THEN Dir ELSE f[q]]
                ELSE f
    IN  IF s.st # "found" \/ s.at = <<>> THEN Fail(f)
        ELSE IF ~(dl.st = "absent" \/ (d.st = "found" /\ KindAt(f, d.at) = "dir"))
        THEN Fail(f)
        ELSE IF EndsWithSlash(src)
        THEN Ok(Mirror(f, s.at, into))
        ELSE IF HasFileName(src)
        THEN Ok(Graft(made, s.at, Append(into, FileName(src))))
        ELSE Fail(f)

\* rename(2) of a directory: onto nothing, onto itself (no effect) or onto
\* an empty directory; any other target is an error.
Rename(f, old, new) ==
    LET o == Resolve(f, old, FALSE)
        n == Resolve(f, new, FALSE)
        moved == Under(f, o.at)
        to(q) == n.at \o SubSeq(q, Len(o.at) + 1, Len(q))
        rekeyed == [q \in (DOMAIN f \ moved) \cup {to(x) : x \in moved} |->
                      IF \E x \in moved : to(x) = q
                      THEN f[CHOOSE x \in moved : to(x) = q]
                      ELSE f[q]]
    IN  IF o.st # "found" \/ o.at = <<>> \/ n.st = "err" THEN Fail(f)
        ELSE IF n.at = o.at THEN Ok(f)
        ELSE IF IsPrefix(o.at, n.at) THEN Fail(f)
        ELSE IF n.st = "absent" THEN Ok(rekeyed)
        ELSE IF f[o.at].kind = "dir"
        THEN (IF KindAt(f, n.at) = "dir" /\ StrictlyUnder(f, n.at) = {}
              THEN Ok(rekeyed) ELSE Fail(f))
        ELSE (IF KindAt(f, n.at) # "dir" THEN Ok(rekeyed) ELSE Fail(f))

\* std::fs::read_dir followed by DirEntry::metadata on every entry (which
\* does not follow symlinks): the names in the directory with their kinds.
ReadDir(f, s) ==
    LET r == Resolve(f, s, TRUE) IN
    IF r.st = "found" /\ KindAt(f, r.at) = "dir"
    THEN [ok |-> TRUE, at |-> r.at, names |-> Children(f, r.at)]
    ELSE [ok |-> FALSE, at |-> <<>>, names |-> {}]

-----------------------------------------------------------------------------
(* synchronize_partially: planning.                                        *)

Action(src, dst, op) == [src_path |-> src, dst_path |-> dst, operation |-> op]
Planned(op) == [ok |-> TRUE, operation |-> op, err |-> ""]
Refused(e) == [ok |-> FALSE, operation |-> "", err |-> e]

check_is_relative(path) == IsRelative(path)

\* "ok" or the error of check_is_directory.
check_is_directory(f, path) ==
    LET m == Metadata(f, path) IN
    IF m = "none" THEN "failed to read metadata"
    ELSE IF m # "dir" THEN "is not a directory"
    ELSE "ok"

\* Faulty variant of check_dst_path_is_ok: what is at the destination is
\* never removed first.
check_dst_path_is_ok_without_removal(f, src_is_dir, dst_path) ==
    LET dst_metadata == SymlinkMetadata(f, dst_path)
        metadata == Metadata(f, dst_path)
    IN  IF dst_metadata = "link" /\ metadata = "none"
        THEN Refused("is a broken symlink")
        ELSE IF src_is_dir
        THEN IF dst_metadata = "link" /\ metadata = "file"
             THEN Refused("is a symlink whose final target is a file")
             ELSE Planned("SynchronizeDir")
        ELSE IF dst_metadata = "link" /\ metadata = "dir"
             THEN Refused("is a symlink whose final target is a directory")
             ELSE Planned("CopyFile")

\* Faulty variant of check_dst_path_is_ok: a symlink whose final target is
\* of the other kind is handled as its target would be, by a removal.
check_dst_path_is_ok_removing_mismatched_links(f, src_is_dir, dst_path) ==
    LET dst_metadata == SymlinkMetadata(f, dst_path)
        metadata == Metadata(f, dst_path)
    IN  IF dst_metadata = "link" /\ metadata = "none"
        THEN Refused("is a broken symlink")
        ELSE IF src_is_dir
        THEN IF metadata = "file" THEN Planned("RemoveDestFileAndCopyDir")
             ELSE Planned("SynchronizeDir")
        ELSE IF metadata = "dir" THEN Planned("RemoveDestDirAndCopyFile")
             ELSE Planned("CopyFile")

\* Faulty variant of check_dst_path_is_ok: a broken symlink is handled as an
\* absent destination.
check_dst_path_is_ok_through_broken_links(f, src_is_dir, dst_path) ==
    LET dst_metadata == SymlinkMetadata(f, dst_path)
        metadata == Metadata(f, dst_path)
    IN  IF src_is_dir
        THEN IF dst_metadata = "file" THEN Planned("RemoveDestFileAndCopyDir")
             ELSE IF dst_metadata = "link" /\ metadata = "file"
             THEN Refused("is a symlink whose final target is a file")
             ELSE Planned("SynchronizeDir")
        ELSE IF dst_metadata = "dir" THEN Planned("RemoveDestDirAndCopyFile")
             ELSE IF dst_metadata = "link" /\ metadata = "dir"
             THEN Refused("is a symlink whose final target is a directory")
             ELSE Planned("CopyFile")

\* Faulty variant of check_dst_path_is_ok: a symlink at the destination is
\* removed and replaced whatever its final target.
check_dst_path_is_ok_replacing_links(f, src_is_dir, dst_path) ==
    LET dst_metadata == SymlinkMetadata(f, dst_path)
        metadata == Metadata(f, dst_path)
    IN  IF dst_metadata = "link" /\ metadata = "none"
        THEN Refused("is a broken symlink")
        ELSE IF src_is_dir
        THEN IF dst_metadata \in {"file", "link"} THEN Planned("RemoveDestFileAndCopyDir")
             ELSE Planned("SynchronizeDir")
        ELSE IF dst_metadata \in {"dir", "link"} THEN Planned("RemoveDestDirAndCopyFile")
             ELSE Planned("CopyFile")

\* Faulty variant of check_dst_path_is_ok: for a source directory the
\* removal of a file is planned when the destination is a directory.
check_dst_path_is_ok_taking_directories_for_files(f, src_is_dir, dst_path) ==
    LET dst_metadata == SymlinkMetadata(f, dst_path)
        metadata == Metadata(f, dst_path)
    IN  IF src_is_dir
        THEN IF dst_metadata = "dir" THEN Planned("RemoveDestFileAndCopyDir")
             ELSE IF dst_metadata = "link" /\ metadata = "none"
             THEN Refused("is a broken symlink")
             ELSE IF dst_metadata = "link" /\ metadata = "file"
             THEN Refused("is a symlink whose final target is a file")
             ELSE Planned("SynchronizeDir")
        ELSE IF dst_metadata = "dir" THEN Planned("RemoveDestDirAndCopyFile")
             ELSE IF dst_metadata = "link" /\ metadata = "none"
             THEN Refused("is a broken symlink")
             ELSE IF dst_metadata = "link" /\ metadata = "dir"
             THEN Refused("is a symlink whose final target is a directory")
             ELSE Planned("CopyFile")

check_dst_path_is_ok(f, src_is_dir, dst_path) ==
    LET dst_metadata == SymlinkMetadata(f, dst_path)
        metadata == Metadata(f, dst_path)
    IN  IF src_is_dir
        THEN IF dst_metadata = "file" THEN Planned("RemoveDestFileAndCopyDir")
             ELSE IF dst_metadata = "link" /\ metadata = "none"
             THEN Refused("is a broken symlink")
             ELSE IF dst_metadata = "link" /\ metadata = "file"
             THEN Refused("is a symlink whose final target is a file")
             ELSE Planned("SynchronizeDir")
        ELSE IF dst_metadata = "dir" THEN Planned("RemoveDestDirAndCopyFile")
             ELSE IF dst_metadata = "link" /\ metadata = "none"
             THEN Refused("is a broken symlink")
             ELSE IF dst_metadata = "link" /\ metadata = "dir"
             THEN Refused("is a symlink whose final target is a directory")
             ELSE Planned("CopyFile")

\* Faulty variant of plan_subpath: the operation is chosen from what is at
\* the source path, the destination not looked at.
plan_subpath_looking_at_the_source(f, src_prefix_path, dst_prefix_path, subpath) ==
    LET src_path == Join(src_prefix_path, subpath)
        src_metadata == Metadata(f, src_path)
    IN  IF src_metadata = "none" THEN Refused("failed to read metadata")
        ELSE check_dst_path_is_ok(f, src_metadata = "dir", src_path)

\* The closure of check_all_synchronizations_seem_possible, for one subpath.
plan_subpath(f, src_prefix_path, dst_prefix_path, subpath) ==
    LET src_path == Join(src_prefix_path, subpath)
        src_metadata == Metadata(f, src_path)
        dst_path == Join(dst_prefix_path, subpath)
    IN  IF src_metadata = "none" THEN Refused("failed to read metadata")
        ELSE check_dst_path_is_ok(f, src_metadata = "dir", dst_path)

\* Faulty variant of check_all_synchronizations_seem_possible: the subpaths
\* that cannot be planned are dropped (filter_map) instead of failing the
\* whole collect().
check_all_skipping_the_refused(f, src_prefix_path, dst_prefix_path, subpaths) ==
    LET plan(i) == plan_subpath(f, src_prefix_path, dst_prefix_path, subpaths[i])
        good == SelectSeq([i \in 1..Len(subpaths) |-> i], LAMBDA i : plan(i).ok)
    IN  [ok |-> TRUE, err |-> "",
         actions |-> [k \in 1..Len(good) |->
                        Action(Join(src_prefix_path, subpaths[good[k]]),
                               Join(dst_prefix_path, subpaths[good[k]]),
                               plan(good[k]).operation)]]

\* collect() into a Result<Vec<_>>: the plans of all the subpaths in order,
\* or the first error.
check_all_synchronizations_seem_possible(f, src_prefix_path, dst_prefix_path, subpaths) ==
    LET plan(i) == plan_subpath(f, src_prefix_path, dst_prefix_path, subpaths[i])
        bad == {i \in 1..Len(subpaths) : ~plan(i).ok}
        first == CHOOSE i \in bad : \A j \in bad : i <= j
    IN  IF bad # {}
        THEN [ok |-> FALSE, err |-> plan(first).err, actions |-> <<>>]
        ELSE [ok |-> TRUE, err |-> "",
              actions |-> [i \in 1..Len(subpaths) |->
                             Action(Join(src_prefix_path, subpaths[i]),
                                    Join(dst_prefix_path, subpaths[i]),
                                    plan(i).operation)]]

\* synchronize_directory: the source gets a trailing separator.
\* Faulty variant of synchronize_directory: the source path is given to
\* rsync as it is.
synchronize_directory_without_separator(f, src_path, dst_path) ==
    Rsync(f, src_path, dst_path)

synchronize_directory(f, src_path, dst_path) ==
    Rsync(f, IF EndsWithSlash(src_path) THEN src_path ELSE src_path \o "/", dst_path)

\* Faulty variant of copy_file: the arguments of fs::copy are exchanged.
copy_file_reversed(f, src_path, dst_path) == CopyTo(f, dst_path, src_path)

copy_file(f, src_path, dst_path) == CopyTo(f, src_path, dst_path)
remove_directory(f, path) == RemoveDirAll(f, path)
\* Faulty variant of remove_file: success is reported and nothing is removed.
remove_file_without_effect(f, path) == Ok(f)

remove_file(f, path) == Unlink(f, path)

-----------------------------------------------------------------------------
(* What a run leaves in `trace`: the lines written to stdout and the calls *)
(* that change the file system, each with its outcome.                     *)

Printed(line) == [op |-> "print", a |-> line, b |-> "", ok |-> TRUE]
Called(op, a, b, ok) == [op |-> op, a |-> a, b |-> b, ok |-> ok]

\* How the spawned rsync can end, whatever the file system holds: it runs to
\* its end, it cannot be spawned, or it exits with a non-zero status after
\* it has written.
ExtOutcomes == {"ok", "spawn_failed", "exit_nonzero"}

\* writeln!(io::stdout(), ..) succeeds or fails, whatever the file system
\* holds; a failure makes `work` return "failed to write to stdout".
StdoutOutcomes == {"written", "failed"}

\* `work` returns: the call is over.
Return(r) ==
    /\ result' = r
    /\ pc' = "done"
    /\ runs' = runs + 1

-----------------------------------------------------------------------------
(* synchronize_partially: `work`, one action per step of the function.     *)

\* Faulty variant of Work_CheckRelative: only the first subpath is checked.
Work_CheckRelative_first_only ==
    /\ tool = "partial" /\ pc = "check_relative"
    /\ IF args.subpaths = <<>> \/ check_is_relative(args.subpaths[1])
       THEN pc' = "check_prefixes" /\ UNCHANGED <<result, runs>>
       ELSE Return("is absolute")
    /\ UNCHANGED <<fs, fs0, tool, args, actions, idx, final, candidates, trace>>
    /\ UNCHANGED <<race, ren, pool>>

\* subpaths.iter().try_for_each(check_is_relative)
Work_CheckRelative ==
    /\ tool = "partial" /\ pc = "check_relative"
    /\ IF \A i \in 1..Len(args.subpaths) : check_is_relative(args.subpaths[i])
       THEN pc' = "check_prefixes" /\ UNCHANGED <<result, runs>>
       ELSE Return("is absolute")
    /\ UNCHANGED <<fs, fs0, tool, args, actions, idx, final, candidates, trace>>
    /\ UNCHANGED <<race, ren, pool>>

\* [src_prefix_path, dst_prefix_path].try_for_each(check_is_directory)
Work_CheckPrefixes ==
    /\ tool = "partial" /\ pc = "check_prefixes"
    /\ LET s == check_is_directory(fs, args.src_prefix_path)
           d == check_is_directory(fs, args.dst_prefix_path)
       IN  IF s # "ok" THEN Return(s)
           ELSE IF d # "ok" THEN Return(d)
           ELSE pc' = "plan" /\ UNCHANGED <<result, runs>>
    /\ UNCHANGED <<fs, fs0, tool, args, actions, idx, final, candidates, trace>>
    /\ UNCHANGED <<race, ren, pool>>

\* let actions: Vec<_> = check_all_synchronizations_seem_possible(..)?
\* An empty Vec makes try_for_each return Ok(()) at once.
Work_Plan ==
    /\ tool = "partial" /\ pc = "plan"
    /\ LET r == check_all_synchronizations_seem_possible(
                    fs, args.src_prefix_path, args.dst_prefix_path, args.subpaths)
       IN  IF ~r.ok THEN Return(r.err) /\ UNCHANGED <<actions, idx>>
           ELSE /\ actions' = r.actions
                /\ idx' = 1
                /\ IF r.actions = <<>> THEN Return("ok")
                   ELSE pc' = "exec" /\ UNCHANGED <<result, runs>>
    /\ UNCHANGED <<fs, fs0, tool, args, final, candidates, trace>>
    /\ UNCHANGED <<race, ren, pool>>

\* The action at idx is over: the next one, or Ok(()) after the last.
NextAction ==
    /\ idx' = idx + 1
    /\ IF idx = Len(actions) THEN Return("ok")
       ELSE pc' = "exec" /\ UNCHANGED <<result, runs>>

\* if operation == RemoveDestFileAndCopyDir { remove_file(&dst_path)? }
Work_RemoveFile ==
    /\ tool = "partial" /\ pc = "exec"
    /\ actions[idx].operation = "RemoveDestFileAndCopyDir"
    /\ \E out \in StdoutOutcomes :
         LET dst == actions[idx].dst_path
             r == remove_file(fs, dst)
         IN  IF out = "failed"
             THEN Return("failed to write to stdout") /\ UNCHANGED <<fs, trace>>
             ELSE /\ fs' = r.fs
                  /\ trace' = trace \o <<Printed("Remove the file"),
                                         Called("remove_file", dst, "", r.ok)>>
                  /\ IF r.ok THEN pc' = "base" /\ UNCHANGED <<result, runs>>
                     ELSE Return("failed to remove the file")
    /\ UNCHANGED <<fs0, tool, args, actions, idx, final, candidates>>
    /\ UNCHANGED <<race, ren, pool>>

\* if operation == RemoveDestDirAndCopyFile { remove_directory(&dst_path)? }
Work_RemoveDirectory ==
    /\ tool = "partial" /\ pc = "exec"
    /\ actions[idx].operation = "RemoveDestDirAndCopyFile"
    /\ \E out \in StdoutOutcomes :
         LET dst == actions[idx].dst_path
             r == remove_directory(fs, dst)
         IN  IF out = "failed"
             THEN Return("failed to write to stdout") /\ UNCHANGED <<fs, trace>>
             ELSE /\ fs' = r.fs
                  /\ trace' = trace \o <<Printed("Remove the diretory"),
                                         Called("remove_directory", dst, "", r.ok)>>
                  /\ IF r.ok THEN pc' = "base" /\ UNCHANGED <<result, runs>>
                     ELSE Return("failed to remove the diretory")
    /\ UNCHANGED <<fs0, tool, args, actions, idx, final, candidates>>
    /\ UNCHANGED <<race, ren, pool>>

\* Faulty variant of Work_SynchronizeDirectory: a failure of rsync is ignored
\* and the next action is started.
Work_SynchronizeDirectory_continuing ==
    /\ tool = "partial"
    /\ \/ pc = "exec" /\ actions[idx].operation = "SynchronizeDir"
       \/ pc = "base" /\ actions[idx].operation = "RemoveDestFileAndCopyDir"
    /\ \E out \in StdoutOutcomes, ext \in ExtOutcomes, outElapsed \in StdoutOutcomes :
         LET a == actions[idx]
             r == synchronize_directory(fs, a.src_path, a.dst_path)
             ok == r.ok /\ ext = "ok"
             told == ok /\ outElapsed = "written"
         IN  IF out = "failed"
             THEN Return("failed to write to stdout") /\ UNCHANGED <<fs, trace, idx>>
             ELSE /\ fs' = IF ext = "spawn_failed" THEN fs ELSE r.fs
                  /\ trace' = trace \o <<Printed("Synchronize"),
                                         Called("rsync", a.src_path, a.dst_path, ok)>>
                                    \o (IF told THEN <<Printed("Elapsed time")>> ELSE <<>>)
                  /\ NextAction
    /\ UNCHANGED <<fs0, tool, args, actions, final, candidates>>
    /\ UNCHANGED <<race, ren, pool>>

\* execute_and_print_elapsed_time(|| synchronize_directory(src_path, &dst_path))
Work_SynchronizeDirectory ==
    /\ tool = "partial"
    /\ \/ pc = "exec" /\ actions[idx].operation = "SynchronizeDir"
       \/ pc = "base" /\ actions[idx].operation = "RemoveDestFileAndCopyDir"
    /\ \E out \in StdoutOutcomes, ext \in ExtOutcomes, outElapsed \in StdoutOutcomes :
         LET a == actions[idx]
             r == synchronize_directory(fs, a.src_path, a.dst_path)
             ok == r.ok /\ ext = "ok"
             told == ok /\ outElapsed = "written"
         IN  IF out = "failed"
             THEN Return("failed to write to stdout") /\ UNCHANGED <<fs, trace, idx>>
             ELSE /\ fs' = IF ext = "spawn_failed" THEN fs ELSE r.fs
                  /\ trace' = trace \o <<Printed("Synchronize"),
                                         Called("rsync", a.src_path, a.dst_path, ok)>>
                                    \o (IF told THEN <<Printed("Elapsed time")>> ELSE <<>>)
                  /\ IF told THEN NextAction
                     ELSE IF ok THEN Return("failed to write to stdout") /\ UNCHANGED idx
                     ELSE Return("failed to synchronize") /\ UNCHANGED idx
    /\ UNCHANGED <<fs0, tool, args, actions, final, candidates>>
    /\ UNCHANGED <<race, ren, pool>>

\* execute_and_print_elapsed_time(|| copy_file(&src_path, &dst_path))
Work_CopyFile ==
    /\ tool = "partial"
    /\ \/ pc = "exec" /\ actions[idx].operation = "CopyFile"
       \/ pc = "base" /\ actions[idx].operation = "RemoveDestDirAndCopyFile"
    /\ \E out \in StdoutOutcomes, outElapsed \in StdoutOutcomes :
         LET a == actions[idx]
             r == copy_file(fs, a.src_path, a.dst_path)
             told == r.ok /\ outElapsed = "written"
         IN  IF out = "failed"
             THEN Return("failed to write to stdout") /\ UNCHANGED <<fs, trace, idx>>
             ELSE /\ fs' = r.fs
                  /\ trace' = trace \o <<Printed("Copy the file"),
                                         Called("copy", a.src_path, a.dst_path, r.ok)>>
                                    \o (IF told THEN <<Printed("Elapsed time")>> ELSE <<>>)
                  /\ IF told THEN NextAction
                     ELSE IF r.ok THEN Return("failed to write to stdout") /\ UNCHANGED idx
                     ELSE Return("failed to copy the file") /\ UNCHANGED idx
    /\ UNCHANGED <<fs0, tool, args, actions, final, candidates>>
    /\ UNCHANGED <<race, ren, pool>>

-----------------------------------------------------------------------------
(* synchronize_backup: the dated name and the candidates.                  *)

DigitChars == <<"0", "1", "2", "3", "4", "5", "6", "7", "8", "9">>
Digit(n) == DigitChars[n + 1]
Pad2(n) == Digit((n \div 10) % 10) \o Digit(n % 10)
Pad4(n) == Pad2(n \div 100) \o Pad2(n % 100)

\* Faulty variant of FormatSuffix: the seconds are written too.
FormatSuffix_with_seconds(now) ==
    "_" \o Pad4(now.year) \o "-" \o Pad2(now.month) \o "-" \o Pad2(now.day)
        \o "-" \o Pad2(now.hour) \o "h" \o Pad2(now.minute) \o "m" \o Pad2(now.second)

\* now.format("_[year]-[month]-[day]-[hour]h[minute]"): zero-padded fields,
\* the seconds dropped; the time crate writes a sign before a negative year.
FormatSuffix(now) ==
    "_" \o (IF now.year < 0 THEN "-" \o Pad4(-now.year) ELSE Pad4(now.year))
        \o "-" \o Pad2(now.month) \o "-" \o Pad2(now.day)
        \o "-" \o Pad2(now.hour) \o "h" \o Pad2(now.minute)

\* format!("{src_dir_name}{suffix}") pushed onto dst_dir_path.
get_final_dst_path(src_dir_name, dst_dir_path, now) ==
    Join(dst_dir_path, src_dir_name \o FormatSuffix(now))

\* Faulty variant of check_src_dir_path_is_ok: fs::symlink_metadata in place
\* of fs::metadata, so that a symlink is not followed.
check_src_dir_path_is_ok_without_following(f, src_dir_path) ==
    IF ~HasFileName(src_dir_path) THEN "does not have a name"
    ELSE IF SymlinkMetadata(f, src_dir_path) = "none" THEN "failed to read metadata"
    ELSE IF SymlinkMetadata(f, src_dir_path) # "dir" THEN "is not a directory"
    ELSE "ok"

\* "ok" (with the name) or the error of check_src_dir_path_is_ok.
check_src_dir_path_is_ok(f, src_dir_path) ==
    IF ~HasFileName(src_dir_path) THEN "does not have a name"
    ELSE IF Metadata(f, src_dir_path) = "none" THEN "failed to read metadata"
    ELSE IF Metadata(f, src_dir_path) # "dir" THEN "is not a directory"
    ELSE "ok"

\* Faulty variant of check_is_directory_or_does_not_exist: fs::metadata in
\* place of fs::symlink_metadata, so that a symlink is followed.
check_is_directory_or_does_not_exist_following(f, path) ==
    LET metadata == Metadata(f, path) IN
    IF metadata # "none" /\ metadata # "dir"
    THEN "exists but is not a directory"
    ELSE "ok"

check_is_directory_or_does_not_exist(f, path) ==
    LET metadata == SymlinkMetadata(f, path) IN
    IF metadata # "none" /\ metadata # "dir"
    THEN "exists but is not a directory"
    ELSE "ok"

\* The tail of the regular expression of get_candidates, d for [[:digit:]]:
\* ^(.*)_[[:digit:]]{4}-[[:digit:]]{2}-[[:digit:]]{2}-[[:digit:]]{2}h[[:digit:]]{2}$
DatePattern == "_dddd-dd-dd-ddhdd"
IsDigit(c) == \E i \in 1..Len(DigitChars) : DigitChars[i] = c

\* regex.captures(dir_name): whether the name matches and, if so, what the
\* group (.*) captured.  The tail has a fixed length, so the group is the
\* rest of the name; the dot of the regex crate matches any character but
\* the line feed, and ^ and $ match at the ends of the name only.
Captures(dir_name) ==
    LET n == Len(dir_name)
        k == Len(DatePattern)
        tail == SubSeq(dir_name, n - k + 1, n)
        matches ==
            /\ n >= k
            /\ \A i \in 1..(n - k) : SubSeq(dir_name, i, i) # "\n"
            /\ \A i \in 1..k :
                 IF SubSeq(DatePattern, i, i) = "d"
                 THEN IsDigit(SubSeq(tail, i, i))
                 ELSE SubSeq(tail, i, i) = SubSeq(DatePattern, i, i)
    IN  [some |-> matches,
         group |-> IF matches THEN SubSeq(dir_name, 1, n - k) ELSE ""]

\* metadata is DirEntry::metadata, which does not follow a symlink.
is_candidate(dir_name, metadata, src_dir_name) ==
    IF metadata # "dir" THEN FALSE
    ELSE LET capture == Captures(dir_name) IN
         capture.some /\ capture.group = src_dir_name

\* Faulty variant of get_candidates: a destination that cannot be read
\* counts as one without entries.
get_candidates_of_unreadable(f, src_dir_name, dst_dir_path) ==
    LET d == ReadDir(f, dst_dir_path) IN
    [ok |-> TRUE,
     paths |-> {Join(dst_dir_path, n) :
                  n \in {m \in d.names :
                           is_candidate(m, f[Append(d.at, m)].kind, src_dir_name)}}]

\* The paths pushed to the Vec (the order of read_dir is not specified, and
\* nothing depends on it), or the failure of read_dir.
get_candidates(f, src_dir_name, dst_dir_path) ==
    LET d == ReadDir(f, dst_dir_path) IN
    [ok |-> d.ok,
     paths |-> {Join(dst_dir_path, n) :
                  n \in {m \in d.names :
                           is_candidate(m, f[Append(d.at, m)].kind, src_dir_name)}}]

\* Faulty variant of synchronize: the source path is given to rsync as it is.
synchronize_without_separator(f, src_path, dst_path) == Rsync(f, src_path, dst_path)

\* Faulty variant of synchronize: the two paths are exchanged.
synchronize_reversed(f, src_path, dst_path) ==
    Rsync(f, IF EndsWithSlash(dst_path) THEN dst_path ELSE dst_path \o "/", src_path)

\* synchronize: the source gets a trailing separator.
synchronize(f, src_path, dst_path) ==
    Rsync(f, IF EndsWithSlash(src_path) THEN src_path ELSE src_path \o "/", dst_path)

-----------------------------------------------------------------------------
(* synchronize_backup: `work`, one action per step of the function.        *)

\* let src_dir_name = check_src_dir_path_is_ok(..)?;
\* let final_dst_path = get_final_dst_path(src_dir_name, dst_dir_path, now);
Backup_CheckSrc ==
    /\ tool = "backup" /\ pc = "check_src"
    /\ LET c == check_src_dir_path_is_ok(fs, args.src_dir_path) IN
       IF c # "ok" THEN Return(c) /\ UNCHANGED final
       ELSE /\ final' = get_final_dst_path(FileName(args.src_dir_path),
                                           args.dst_dir_path, args.now)
            /\ pc' = "check_final"
            /\ UNCHANGED <<result, runs>>
    /\ UNCHANGED <<fs, fs0, tool, args, actions, idx, candidates, trace>>
    /\ UNCHANGED <<race, ren, pool>>

\* Faulty variant of Backup_CheckFinal: the final path is not looked at.
Backup_CheckFinal_skipped ==
    /\ tool = "backup" /\ pc = "check_final"
    /\ pc' = "candidates"
    /\ UNCHANGED <<fs, fs0, tool, args, actions, idx, final, candidates, result, trace, runs>>
    /\ UNCHANGED <<race, ren, pool>>

\* check_is_directory_or_does_not_exist(&final_dst_path)?
Backup_CheckFinal ==
    /\ tool = "backup" /\ pc = "check_final"
    /\ LET c == check_is_directory_or_does_not_exist(fs, final) IN
       IF c # "ok" THEN Return(c)
       ELSE pc' = "candidates" /\ UNCHANGED <<result, runs>>
    /\ UNCHANGED <<fs, fs0, tool, args, actions, idx, final, candidates, trace>>
    /\ UNCHANGED <<race, ren, pool>>

\* Faulty variant of Backup_GetCandidates: without the ensure! on the number
\* of candidates.
Backup_GetCandidates_without_ensure ==
    /\ tool = "backup" /\ pc = "candidates"
    /\ LET r == get_candidates(fs, FileName(args.src_dir_path), args.dst_dir_path) IN
       IF ~r.ok THEN Return("failed to look for candidates") /\ UNCHANGED candidates
       ELSE candidates' = r.paths /\ pc' = "rename" /\ UNCHANGED <<result, runs>>
    /\ UNCHANGED <<fs, fs0, tool, args, actions, idx, final, trace>>
    /\ UNCHANGED <<race, ren, pool>>

\* maybe_rename_a_candidate_to_final_dst, up to the ensure!.
Backup_GetCandidates ==
    /\ tool = "backup" /\ pc = "candidates"
    /\ LET r == get_candidates(fs, FileName(args.src_dir_path), args.dst_dir_path) IN
       IF ~r.ok THEN Return("failed to look for candidates") /\ UNCHANGED candidates
       ELSE /\ candidates' = r.paths
            /\ IF Cardinality(r.paths) < 2
               THEN pc' = "rename" /\ UNCHANGED <<result, runs>>
               ELSE Return("there are several candidates")
    /\ UNCHANGED <<fs, fs0, tool, args, actions, idx, final, trace>>
    /\ UNCHANGED <<race, ren, pool>>

\* Faulty variant of Backup_Rename: the candidate is left where it is.
Backup_Rename_skipped ==
    /\ tool = "backup" /\ pc = "rename"
    /\ pc' = "sync"
    /\ UNCHANGED <<fs, fs0, tool, args, actions, idx, final, candidates, result, trace, runs>>
    /\ UNCHANGED <<race, ren, pool>>

\* if let Some(candidate) = candidates.get(0) { fs::rename(candidate, final_dst_path)? }
Backup_Rename ==
    /\ tool = "backup" /\ pc = "rename"
    /\ IF candidates = {}
       THEN pc' = "sync" /\ UNCHANGED <<fs, trace, result, runs>>
       ELSE \E out \in StdoutOutcomes :
              LET candidate == CHOOSE c \in candidates : TRUE
                  r == Rename(fs, candidate, final)
                  told == r.ok /\ out = "written"
              IN  /\ fs' = r.fs
                  /\ trace' = trace \o <<Called("rename", candidate, final, r.ok)>>
                                    \o (IF told THEN <<Printed("Renamed")>> ELSE <<>>)
                  /\ IF told THEN pc' = "sync" /\ UNCHANGED <<result, runs>>
                     ELSE IF r.ok THEN Return("failed to write to stdout")
                     ELSE Return("failed to renamed")
    /\ UNCHANGED <<fs0, tool, args, actions, idx, final, candidates>>
    /\ UNCHANGED <<race, ren, pool>>

\* Faulty variant of Backup_Synchronize: when rsync has failed after a rename,
\* the final directory is renamed back to the name of the candidate.
Backup_Synchronize_undoing_the_rename ==
    /\ tool = "backup" /\ pc = "sync"
    /\ \E out \in StdoutOutcomes, ext \in ExtOutcomes, outElapsed \in StdoutOutcomes :
         LET r == synchronize(fs, args.src_dir_path, final)
             ok == r.ok /\ ext = "ok"
             told == ok /\ outElapsed = "written"
             after == IF ext = "spawn_failed" THEN fs ELSE r.fs
         IN  IF out = "failed"
             THEN Return("failed to write to stdout") /\ UNCHANGED <<fs, trace>>
             ELSE /\ fs' = IF ~ok /\ candidates # {}
                            THEN Rename(after, final, CHOOSE c \in candidates : TRUE).fs
                            ELSE after
                  /\ trace' = trace \o <<Printed("Synchronize"),
                                         Called("rsync", args.src_dir_path, final, ok)>>
                                    \o (IF told THEN <<Printed("Elapsed time")>> ELSE <<>>)
                  /\ Return(IF told THEN "ok"
                            ELSE IF ok THEN "failed to write to stdout"
                            ELSE "failed to synchronize")
    /\ UNCHANGED <<fs0, tool, args, actions, idx, final, candidates>>
    /\ UNCHANGED <<race, ren, pool>>

\* execute_and_print_elapsed_time(|| synchronize(src_dir_path, &final_dst_path))
Backup_Synchronize ==
    /\ tool = "backup" /\ pc = "sync"
    /\ \E out \in StdoutOutcomes, ext \in ExtOutcomes, outElapsed \in StdoutOutcomes :
         LET r == synchronize(fs, args.src_dir_path, final)
             ok == r.ok /\ ext = "ok"
             told == ok /\ outElapsed = "written"
         IN  IF out = "failed"
             THEN Return("failed to write to stdout") /\ UNCHANGED <<fs, trace>>
             ELSE /\ fs' = IF ext = "spawn_failed" THEN fs ELSE r.fs
                  /\ trace' = trace \o <<Printed("Synchronize"),
                                         Called("rsync", args.src_dir_path, final, ok)>>
                                    \o (IF told THEN <<Printed("Elapsed time")>> ELSE <<>>)
                  /\ Return(IF told THEN "ok"
                            ELSE IF ok THEN "failed to write to stdout"
                            ELSE "failed to synchronize")
    /\ UNCHANGED <<fs0, tool, args, actions, idx, final, candidates>>
    /\ UNCHANGED <<race, ren, pool>>

-----------------------------------------------------------------------------
(* The file systems and the arguments the runs start from.  The layout     *)
(* follows the tests of the two programs: a source directory foo, a        *)
(* destination directory bar, and symlink chains of length two.            *)

MkFs(entries) ==
    [p \in {e[1] : e \in entries} |-> (CHOOSE e \in entries : e[1] = p)[2]]

\* What is at foo and bar whatever the scenario.
FixedEntries ==
    { <<<<"foo">>, Dir>>,
      <<<<"foo", "sea">>, File("massive")>>,
      <<<<"foo", "words">>, Dir>>,
      <<<<"foo", "words", "red">>, File("blood")>>,
      <<<<"foo", "words", "dark">>, Dir>>,
      <<<<"foo", "words", "dark", "black">>, File("ink")>>,
      <<<<"foo", "things">>, Link("words")>>,
      <<<<"foo", "place">>, Link("sea")>>,
      <<<<"foo", "ghost">>, Link("non_existent_path")>>,
      <<<<"bar">>, Dir>>,
      <<<<"bar", "sun">>, File("star")>>,
      <<<<"bar", "images">>, Dir>>,
      <<<<"bar", "images", "green">>, File("grass")>>,
      <<<<"bar", "sky">>, Link("sun")>>,
      <<<<"bar", "examples">>, Link("images")>>,
      <<<<"bar", "gone">>, Link("non_existent_path")>>,
      <<<<"lnk">>, Link("bar")>> }

SrcKinds == {"dir", "file", "linkdir", "linkfile", "broken", "absent"}
DstKinds == {"absent", "file", "dir", "linkfile", "linkdir", "broken"}
SrcKindsFew == {"dir", "file", "absent"}
DstKindsFew == {"absent", "file", "dir", "linkfile"}

\* The entry foo/<name> of each kind: a directory tree, a file, a chain of
\* two symlinks to a directory or to a file, a chain ending nowhere.
SrcEntries(name, kind) ==
    CASE kind = "dir" ->
           { <<<<"foo", name>>, Dir>>,
             <<<<"foo", name, "red">>, File("blood")>>,
             <<<<"foo", name, "dark">>, Dir>>,
             <<<<"foo", name, "dark", "black">>, File("ink")>> }
      [] kind = "file" -> { <<<<"foo", name>>, File("photo")>> }
      [] kind = "linkdir" -> { <<<<"foo", name>>, Link("things")>> }
      [] kind = "linkfile" -> { <<<<"foo", name>>, Link("place")>> }
      [] kind = "broken" -> { <<<<"foo", name>>, Link("ghost")>> }
      [] OTHER -> {}

\* The entry bar/<name> of each kind.  The directory holds a file, a
\* symlink to a directory and a directory, so that nested destinations of
\* each kind exist.
DstEntries(name, kind) ==
    CASE kind = "dir" ->
           { <<<<"bar", name>>, Dir>>,
             <<<<"bar", name, "green">>, File("grass")>>,
             <<<<"bar", name, "dark">>, Link("../images")>>,
             <<<<"bar", name, "light">>, Dir>>,
             <<<<"bar", name, "light", "white">>, File("milk")>> }
      [] kind = "file" -> { <<<<"bar", name>>, File("old")>> }
      [] kind = "linkdir" -> { <<<<"bar", name>>, Link("examples")>> }
      [] kind = "linkfile" -> { <<<<"bar", name>>, Link("sky")>> }
      [] kind = "broken" -> { <<<<"bar", name>>, Link("gone")>> }
      [] OTHER -> {}

RECURSIVE SeqsUpTo(_, _)
SeqsUpTo(S, n) ==
    IF n = 0 THEN {<<>>}
    ELSE LET shorter == SeqsUpTo(S, n - 1) IN
         shorter \cup {Append(q, x) : q \in shorter, x \in S}

ColorsSubpaths == {"colors", "colors/dark"}
PictureSubpaths == {"picture", "/picture"}
\* A subpath that ends with a separator, given alone.
SlashSubpath == "colors/"
Names(list, S) == \E i \in 1..Len(list) : list[i] \in S

SrcPrefixPaths == {"foo", "foo/", "foo/sea", "foo/ghost", "nowhere"}
DstPrefixPaths == {"bar", "lnk", "bar/sun", "bar/gone", "nowhere"}

\* The scenarios of synchronize_partially: the prefixes, the subpath list
\* and the kinds of foo/colors, bar/colors, foo/picture and bar/picture.  A
\* name the list does not mention keeps one kind; when both are mentioned,
\* picture takes its kinds from the smaller sets.  The prefixes other than
\* foo and bar come with one kind of each entry.
PartialScenarios ==
    { x \in [srcp : SrcPrefixPaths, dstp : DstPrefixPaths,
             subpaths : SeqsUpTo(ColorsSubpaths \cup PictureSubpaths, MaxSubpaths)
                          \cup {<<SlashSubpath>>},
             sc : SrcKinds, dc : DstKinds, sp : SrcKinds, dp : DstKinds] :
        /\ Names(x.subpaths, ColorsSubpaths \cup {SlashSubpath})
              \/ (x.sc = "dir" /\ x.dc = "absent")
        /\ Names(x.subpaths, PictureSubpaths) \/ (x.sp = "file" /\ x.dp = "absent")
        /\ (Names(x.subpaths, ColorsSubpaths) /\ Names(x.subpaths, PictureSubpaths))
              => (x.sp \in SrcKindsFew /\ x.dp \in DstKindsFew)
        /\ \/ x.srcp = "foo" /\ x.dstp = "bar"
           \/ x.sc = "dir" /\ x.dc = "file" /\ x.sp = "file" /\ x.dp = "dir" }

PartialFs(x) ==
    MkFs(FixedEntries \cup SrcEntries("colors", x.sc) \cup DstEntries("colors", x.dc)
                      \cup SrcEntries("picture", x.sp) \cup DstEntries("picture", x.dp))

PartialArgs(x) ==
    [src_prefix_path |-> x.srcp, dst_prefix_path |-> x.dstp, subpaths |-> x.subpaths]

\* The times of the runs of synchronize_backup: two in the same minute and
\* an earlier one.
Time(y, mo, d, h, mi, s) ==
    [year |-> y, month |-> mo, day |-> d, hour |-> h, minute |-> mi, second |-> s]
Nows == { Time(2022, 8, 9, 10, 11, 12),
          Time(2022, 12, 13, 14, 15, 16),
          Time(2022, 12, 13, 14, 15, 59) }

\* The dated names that may be in bar when a run starts.
DatedNames == { "colors_2022-08-09-10h11", "colors_2022-09-10-11h12",
                "colors_2022-12-13-14h15" }
DatedKinds == {"absent", "dir", "file", "link", "broken"}
DatedEntries(name, kind) ==
    CASE kind = "dir" ->
           { <<<<"bar", name>>, Dir>>,
             <<<<"bar", name, "green">>, File("grass")>> }
      [] kind = "file" -> { <<<<"bar", name>>, File("whatever")>> }
      [] kind = "link" -> { <<<<"bar", name>>, Link("images")>> }
      [] kind = "broken" -> { <<<<"bar", name>>, Link("gone")>> }
      [] OTHER -> {}

\* The directories of bar whose names are close to a dated name of colors,
\* and a source directory whose name holds a line feed, with a dated
\* directory of that name in bar.
OddNames == { "colors2022-08-09-10h11", "colors_222-08-09-10h11",
              "colors_2022-08-09-10h11m12", "colors_2022-08-bb-10h11",
              "colors_2022-AA-09-10h11", "some_colors_2022-08-09-10h11" }
LineFeedName == "co\nlors"
OddEntries ==
    UNION {DatedEntries(n, "dir") : n \in OddNames}
      \cup SrcEntries(LineFeedName, "dir")
      \cup DatedEntries(LineFeedName \o "_2022-08-09-10h11", "dir")

SrcDirPaths == {"foo/colors", "foo/colors/", "foo/colors/dark/..",
                "foo/" \o LineFeedName}
DstDirPaths == {"bar", "lnk"}
\* Destination paths that cannot be listed: nothing, a file, a symlink to a
\* file, a symlink to nothing.
UnreadableDstDirPaths == {"nowhere", "bar/sun", "bar/sky", "bar/gone"}

\* The scenarios of synchronize_backup: every kind of source with one or
\* two dated directories in bar, one good source with every destination,
\* the odd names with a good source, and the destinations that cannot be
\* listed.
BackupScenarios ==
    { x \in [src : SrcDirPaths, sc : SrcKinds,
             dst : DstDirPaths \cup UnreadableDstDirPaths,
             dated : [DatedNames -> DatedKinds], now : Nows, odd : BOOLEAN] :
        \/ /\ ~x.odd /\ x.src # "foo/" \o LineFeedName
           /\ x.dst \in DstDirPaths
           /\ \/ /\ x.dst = "bar" /\ x.now.second = 16
                 /\ x.dated["colors_2022-08-09-10h11"] = "dir"
                 /\ x.dated["colors_2022-09-10-11h12"] \in {"absent", "dir"}
                 /\ x.dated["colors_2022-12-13-14h15"] = "absent"
              \/ x.src = "foo/colors" /\ x.sc = "dir"
        \/ /\ x.odd /\ x.src \in {"foo/colors", "foo/" \o LineFeedName}
           /\ x.sc = "dir" /\ x.dst = "bar" /\ x.now.second = 16
           /\ x.dated["colors_2022-08-09-10h11"] \in {"dir", "file", "link"}
           /\ x.dated["colors_2022-09-10-11h12"] \in {"absent", "dir"}
           /\ x.dated["colors_2022-12-13-14h15"] = "absent"
        \/ /\ ~x.odd /\ x.dst \in UnreadableDstDirPaths
           /\ x.src \in {"foo/colors", "foo/colors/"} /\ x.sc \in {"dir", "linkdir", "file"}
           /\ x.now.second = 16
           /\ x.dated["colors_2022-08-09-10h11"] = "dir"
           /\ x.dated["colors_2022-09-10-11h12"] = "absent"
           /\ x.dated["colors_2022-12-13-14h15"] = "absent" }

\* Destination directories that are the source directory or hold it.
OverlappingDstDirPaths == {"foo/colors", "foo"}
OverlapScenarios ==
    { x \in [src : {"foo/colors"}, sc : {"dir"}, dst : OverlappingDstDirPaths,
             dated : [DatedNames -> DatedKinds], now : Nows, odd : {FALSE}] :
        /\ x.now.second = 16
        /\ x.dated["colors_2022-08-09-10h11"] = "dir"
        /\ x.dated["colors_2022-09-10-11h12"] = "absent"
        /\ x.dated["colors_2022-12-13-14h15"] = "absent" }

BackupFs(x) ==
    MkFs(FixedEntries \cup SrcEntries("colors", x.sc)
            \cup UNION {DatedEntries(n, x.dated[n]) : n \in DatedNames}
            \cup (IF x.odd THEN OddEntries ELSE {}))

BackupArgs(x) == [src_dir_path |-> x.src, dst_dir_path |-> x.dst, now |-> x.now]

-----------------------------------------------------------------------------
(* The specification.                                                      *)

StartOfRun ==
    /\ actions = <<>> /\ idx = 0 /\ final = "" /\ candidates = {}
    /\ result = "running" /\ trace = <<>>

Init ==
    /\ \/ /\ tool = "partial" /\ pc = "check_relative"
          /\ \E x \in PartialScenarios : fs = PartialFs(x) /\ args = PartialArgs(x)
       \/ /\ tool = "backup" /\ pc = "check_src"
          /\ \E x \in BackupScenarios : fs = BackupFs(x) /\ args = BackupArgs(x)
    /\ fs0 = fs
    /\ runs = 0
    /\ StartOfRun
    /\ race = NotStarted /\ ren = NotStarted /\ pool = NotStarted

\* The program is called again on what the last call left: with the same
\* arguments, and for synchronize_backup at any of the times.
Rerun ==
    /\ pc = "done" /\ runs < MaxRuns
    /\ fs0' = fs
    /\ actions' = <<>> /\ idx' = 0 /\ final' = "" /\ candidates' = {}
    /\ result' = "running" /\ trace' = <<>>
    /\ IF tool = "partial"
       THEN pc' = "check_relative" /\ UNCHANGED args
       ELSE pc' = "check_src" /\ \E t \in Nows : args' = [args EXCEPT !.now = t]
    /\ UNCHANGED <<fs, tool, runs>>
    /\ UNCHANGED <<race, ren, pool>>

Next ==
    \/ Work_CheckRelative
    \/ Work_CheckPrefixes
    \/ Work_Plan
    \/ Work_RemoveFile
    \/ Work_RemoveDirectory
    \/ Work_SynchronizeDirectory
    \/ Work_CopyFile
    \/ Backup_CheckSrc
    \/ Backup_CheckFinal
    \/ Backup_GetCandidates
    \/ Backup_Rename
    \/ Backup_Synchronize
    \/ Rerun

Spec == Init /\ [][Next]_vars

\* The same runs, and those of synchronize_backup with a destination
\* directory that is the source directory or holds it.
InitOverlap ==
    /\ \/ /\ tool = "partial" /\ pc = "check_relative"
          /\ \E x \in PartialScenarios : fs = PartialFs(x) /\ args = PartialArgs(x)
       \/ /\ tool = "backup" /\ pc = "check_src"
          /\ \E x \in BackupScenarios \cup OverlapScenarios :
                fs = BackupFs(x) /\ args = BackupArgs(x)
    /\ fs0 = fs
    /\ runs = 0
    /\ StartOfRun
    /\ race = NotStarted /\ ren = NotStarted /\ pool = NotStarted

SpecOverlap == InitOverlap /\ [][Next]_vars

-----------------------------------------------------------------------------
(* backup (src/bin_from_ninja/backup): each listed path is copied beside   *)
(* itself under its name followed by the dated suffix.  The program runs   *)
(* on the variables of the engine, with tool = "copy".                     *)

MaxSrcPaths == 2      \* longest list of paths given to backup

RECURSIVE Unsplit(_)
Unsplit(cs) ==
    IF cs = <<>> THEN ""
    ELSE IF Len(cs) = 1 THEN cs[1]
    ELSE cs[1] \o "/" \o Unsplit(Tail(cs))

\* Path::with_file_name: the parent of the path, joined with the name.
WithFileName(s, name) ==
    LET cs == Components(s) IN
    (IF IsAbsolute(s) THEN "/" ELSE "")
        \o Unsplit(Append(SubSeq(cs, 1, Len(cs) - 1), name))

\* get_dst_path_suffix(now, "_[year]-[month]-[day]-[hour]h[minute]")
get_dst_path_suffix(now) == FormatSuffix(now)

CopyAction(src, dst, is_dir) == [src_path |-> src, dst_path |-> dst, src_is_dir |-> is_dir]

\* The closure of check_all_copies_seem_possible, for one path.
plan_copy(f, src_path, dst_path_suffix) ==
    IF ~HasFileName(src_path)
    THEN [ok |-> FALSE, err |-> "does not have a name", action |-> <<>>]
    ELSE LET src_metadata == Metadata(f, src_path)
             dst_path == WithFileName(src_path, FileName(src_path) \o dst_path_suffix)
         IN  IF src_metadata = "none"
             THEN [ok |-> FALSE, err |-> "failed to read metadata", action |-> <<>>]
             ELSE IF SymlinkMetadata(f, dst_path) # "none"
             THEN [ok |-> FALSE, err |-> "already exists", action |-> <<>>]
             ELSE [ok |-> TRUE, err |-> "",
                   action |-> CopyAction(src_path, dst_path, src_metadata = "dir")]

\* Faulty variant of check_all_copies_seem_possible: the paths that cannot
\* be planned are dropped (filter_map) instead of failing the whole
\* collect().
check_all_copies_skipping_the_refused(f, src_paths, dst_path_suffix) ==
    LET plan(i) == plan_copy(f, src_paths[i], dst_path_suffix)
        good == SelectSeq([i \in 1..Len(src_paths) |-> i], LAMBDA i : plan(i).ok)
    IN  [ok |-> TRUE, err |-> "",
         actions |-> [k \in 1..Len(good) |-> plan(good[k]).action]]

\* collect() into a Result<Vec<_>>: the actions of all the paths in order,
\* or the first error.
check_all_copies_seem_possible(f, src_paths, dst_path_suffix) ==
    LET plan(i) == plan_copy(f, src_paths[i], dst_path_suffix)
        bad == {i \in 1..Len(src_paths) : ~plan(i).ok}
        first == CHOOSE i \in bad : \A j \in bad : i <= j
    IN  IF bad # {}
        THEN [ok |-> FALSE, err |-> plan(first).err, actions |-> <<>>]
        ELSE [ok |-> TRUE, err |-> "",
              actions |-> [i \in 1..Len(src_paths) |-> plan(i).action]]

\* cp -rH -- src dst, src leading to a directory: the symlinks of the
\* command line are followed, those the directory holds are copied as
\* symlinks.  The directory is copied as dst when nothing is there, into dst
\* under its own name when dst leads to a directory (over what that name
\* holds there); any other dst is an error.
Cp(f, src, dst) ==
    LET s == Resolve(f, src, TRUE)
        dl == Resolve(f, dst, FALSE)
        d == Resolve(f, dst, TRUE)
        inside == Append(d.at, FileName(src))
        over == {inside \o SubSeq(q, Len(s.at) + 1, Len(q)) : q \in Under(f, s.at)}
    IN  IF s.st # "found" \/ s.at = <<>> \/ KindAt(f, s.at) # "dir" THEN Fail(f)
        ELSE IF dl.st = "absent" THEN Ok(Graft(f, s.at, dl.at))
        ELSE IF d.st = "found" /\ KindAt(f, d.at) = "dir" /\ HasFileName(src)
        THEN (IF inside \in DOMAIN f /\ f[inside].kind # "dir" THEN Fail(f)
              ELSE Ok([q \in DOMAIN f \cup over |->
                         IF q \in over
                         THEN f[s.at \o SubSeq(q, Len(inside) + 1, Len(q))]
                         ELSE f[q]]))
        ELSE Fail(f)

\* copy: cp for a directory, std::fs::copy for a file.
copy(f, src_path, dst_path, src_is_dir) ==
    IF src_is_dir THEN Cp(f, src_path, dst_path) ELSE CopyTo(f, src_path, dst_path)

\* let copy_actions: Vec<_> = check_all_copies_seem_possible(..)?
Copy_Plan ==
    /\ tool = "copy" /\ pc = "plan"
    /\ LET r == check_all_copies_seem_possible(
                    fs, args.src_paths, get_dst_path_suffix(args.now))
       IN  IF ~r.ok THEN Return(r.err) /\ UNCHANGED <<actions, idx>>
           ELSE /\ actions' = r.actions
                /\ idx' = 1
                /\ IF r.actions = <<>> THEN Return("ok")
                   ELSE pc' = "exec" /\ UNCHANGED <<result, runs>>
    /\ UNCHANGED <<fs, fs0, tool, args, final, candidates, trace>>
    /\ UNCHANGED <<race, ren, pool>>

\* copy(&src_path, &dst_path, src_is_dir)?; writeln!(.., "Copied ..")?
\* cp can fail to be spawned or end with a non-zero status whatever the file
\* system holds.
Copy_Copy ==
    /\ tool = "copy" /\ pc = "exec"
    /\ \E ext \in ExtOutcomes, out \in StdoutOutcomes :
         LET a == actions[idx]
             r == copy(fs, a.src_path, a.dst_path, a.src_is_dir)
             ok == r.ok /\ (a.src_is_dir => ext = "ok")
             told == ok /\ out = "written"
         IN  /\ fs' = IF a.src_is_dir /\ ext = "spawn_failed" THEN fs ELSE r.fs
             /\ trace' = trace \o <<Called("copy", a.src_path, a.dst_path, ok)>>
                               \o (IF told THEN <<Printed("Copied")>> ELSE <<>>)
             /\ IF told THEN NextAction
                ELSE IF ok THEN Return("failed to write to stdout") /\ UNCHANGED idx
                ELSE Return("failed to copy") /\ UNCHANGED idx
    /\ UNCHANGED <<fs0, tool, args, actions, final, candidates>>
    /\ UNCHANGED <<race, ren, pool>>

\* The program is called again with the same paths, at any of the times.
Copy_Rerun ==
    /\ tool = "copy" /\ pc = "done" /\ runs < MaxRuns
    /\ fs0' = fs
    /\ actions' = <<>> /\ idx' = 0
    /\ result' = "running" /\ trace' = <<>>
    /\ pc' = "plan"
    /\ \E t \in Nows : args' = [args EXCEPT !.now = t]
    /\ UNCHANGED <<fs, tool, runs, final, candidates>>
    /\ UNCHANGED <<race, ren, pool>>

\* The paths given to backup: a directory or a file (or what foo/colors is
\* in the scenario), a path without a name, a broken symlink, a path to
\* nothing.
CopySrcPaths == {"foo/colors", "foo/sea", "foo/words/..", "foo/ghost", "foo/nothing"}

\* What is at the dated path of foo/colors and of foo/sea for the time of
\* December.
CopyDatedKinds == {"absent", "dir", "file", "link", "broken"}
CopyDatedEntries(name, kind) ==
    CASE kind = "dir" -> { <<<<"foo", name>>, Dir>> }
      [] kind = "file" -> { <<<<"foo", name>>, File("whatever")>> }
      [] kind = "link" -> { <<<<"foo", name>>, Link("words")>> }
      [] kind = "broken" -> { <<<<"foo", name>>, Link("ghost")>> }
      [] OTHER -> {}

CopyScenarios ==
    [src_paths : SeqsUpTo(CopySrcPaths, MaxSrcPaths), sc : SrcKinds,
     dc : CopyDatedKinds, ds : {"absent", "broken"}, now : Nows]

CopyFs(x) ==
    MkFs(FixedEntries \cup SrcEntries("colors", x.sc)
           \cup CopyDatedEntries("colors_2022-12-13-14h15", x.dc)
           \cup CopyDatedEntries("sea_2022-12-13-14h15", x.ds))

CopyArgs(x) == [src_paths |-> x.src_paths, now |-> x.now]

InitCopy ==
    /\ tool = "copy" /\ pc = "plan"
    /\ \E x \in CopyScenarios : fs = CopyFs(x) /\ args = CopyArgs(x)
    /\ fs0 = fs
    /\ runs = 0
    /\ StartOfRun
    /\ race = NotStarted /\ ren = NotStarted /\ pool = NotStarted

NextCopy ==
    \/ Copy_Plan
    \/ Copy_Copy
    \/ Copy_Rerun

SpecCopy == InitCopy /\ [][NextCopy]_vars

-----------------------------------------------------------------------------
(* Two runs of synchronize_backup at once, for the same source and the     *)
(* same destination directory.  Each run is a process with its own         *)
(* position, time, final path and candidates; the file system is the one   *)
(* thing they share, and nothing in `work` takes a lock on it.  A step of  *)
(* a run is a step of `work`, as in the run alone.                         *)

Procs == {1, 2}

RaceStep(p, to, res) == race' = [race EXCEPT ![p].pc = to, ![p].result = res]

\* let src_dir_name = check_src_dir_path_is_ok(..)?; get_final_dst_path(..)
Race_CheckSrc(p) ==
    /\ race # NotStarted /\ race[p].pc = "check_src"
    /\ LET c == check_src_dir_path_is_ok(fs, args.src_dir_path) IN
       IF c # "ok" THEN RaceStep(p, "done", c)
       ELSE race' = [race EXCEPT
                       ![p].pc = "check_final",
                       ![p].final = get_final_dst_path(FileName(args.src_dir_path),
                                                       args.dst_dir_path, race[p].now)]
    /\ UNCHANGED <<engine, ren, pool>>

\* check_is_directory_or_does_not_exist(&final_dst_path)?
Race_CheckFinal(p) ==
    /\ race # NotStarted /\ race[p].pc = "check_final"
    /\ LET c == check_is_directory_or_does_not_exist(fs, race[p].final) IN
       IF c # "ok" THEN RaceStep(p, "done", c)
       ELSE RaceStep(p, "candidates", "running")
    /\ UNCHANGED <<engine, ren, pool>>

\* maybe_rename_a_candidate_to_final_dst, up to the ensure!.
Race_GetCandidates(p) ==
    /\ race # NotStarted /\ race[p].pc = "candidates"
    /\ LET r == get_candidates(fs, FileName(args.src_dir_path), args.dst_dir_path) IN
       IF ~r.ok THEN RaceStep(p, "done", "failed to look for candidates")
       ELSE race' = [race EXCEPT
                       ![p].candidates = r.paths,
                       ![p].pc = IF Cardinality(r.paths) < 2 THEN "rename" ELSE "done",
                       ![p].result = IF Cardinality(r.paths) < 2 THEN "running"
                                     ELSE "there are several candidates"]
    /\ UNCHANGED <<engine, ren, pool>>

\* Faulty variant of Race_Rename: a candidate that is no longer there is not
\* renamed, and the run goes on.
Race_Rename_when_still_there(p) ==
    /\ race # NotStarted /\ race[p].pc = "rename"
    /\ LET candidate == CHOOSE c \in race[p].candidates : TRUE IN
       IF race[p].candidates = {} \/ SymlinkMetadata(fs, candidate) = "none"
       THEN RaceStep(p, "sync", "running") /\ UNCHANGED fs
       ELSE LET r == Rename(fs, candidate, race[p].final) IN
            /\ fs' = r.fs
            /\ race' = [race EXCEPT
                          ![p].calls = Append(@, Called("rename", candidate, race[p].final, r.ok)),
                          ![p].pc = IF r.ok THEN "sync" ELSE "done",
                          ![p].result = IF r.ok THEN "running" ELSE "failed to renamed"]
    /\ UNCHANGED <<fs0, tool, args, pc, actions, idx, final, candidates, result, trace, runs>>
    /\ UNCHANGED <<ren, pool>>

\* if let Some(candidate) = candidates.get(0) { fs::rename(candidate, final_dst_path)? }
Race_Rename(p) ==
    /\ race # NotStarted /\ race[p].pc = "rename"
    /\ IF race[p].candidates = {}
       THEN RaceStep(p, "sync", "running") /\ UNCHANGED fs
       ELSE \E out \in StdoutOutcomes :
              LET candidate == CHOOSE c \in race[p].candidates : TRUE
                  r == Rename(fs, candidate, race[p].final)
                  told == r.ok /\ out = "written"
              IN  /\ fs' = r.fs
                  /\ race' = [race EXCEPT
                                ![p].calls = Append(@, Called("rename", candidate,
                                                              race[p].final, r.ok)),
                                ![p].pc = IF told THEN "sync" ELSE "done",
                                ![p].result = IF told THEN "running"
                                              ELSE IF r.ok THEN "failed to write to stdout"
                                              ELSE "failed to renamed"]
    /\ UNCHANGED <<fs0, tool, args, pc, actions, idx, final, candidates, result, trace, runs>>
    /\ UNCHANGED <<ren, pool>>

\* execute_and_print_elapsed_time(|| synchronize(src_dir_path, &final_dst_path))
Race_Synchronize(p) ==
    /\ race # NotStarted /\ race[p].pc = "sync"
    /\ \E out \in StdoutOutcomes, ext \in ExtOutcomes, outElapsed \in StdoutOutcomes :
         LET r == synchronize(fs, args.src_dir_path, race[p].final)
             ok == r.ok /\ ext = "ok"
             told == ok /\ outElapsed = "written"
         IN  IF out = "failed"
             THEN RaceStep(p, "done", "failed to write to stdout") /\ UNCHANGED fs
             ELSE /\ fs' = IF ext = "spawn_failed" THEN fs ELSE r.fs
                  /\ race' = [race EXCEPT
                                ![p].calls = Append(@, Called("rsync", args.src_dir_path,
                                                              race[p].final, ok)),
                                ![p].pc = "done",
                                ![p].result = IF told THEN "ok"
                                              ELSE IF ok THEN "failed to write to stdout"
                                              ELSE "failed to synchronize"]
    /\ UNCHANGED <<fs0, tool, args, pc, actions, idx, final, candidates, result, trace, runs>>
    /\ UNCHANGED <<ren, pool>>

\* What the two runs start from: the directory foo/colors, the destination
\* bar with the dated directory of August or without it.
RaceScenarios ==
    { x \in BackupScenarios :
        /\ ~x.odd /\ x.src = "foo/colors" /\ x.sc = "dir" /\ x.dst = "bar"
        /\ x.now.second = 16
        /\ x.dated["colors_2022-08-09-10h11"] \in {"dir", "absent"}
        /\ x.dated["colors_2022-09-10-11h12"] \in {"dir", "absent"}
        /\ x.dated["colors_2022-12-13-14h15"] = "absent" }

InitRace ==
    /\ tool = "backup" /\ pc = "race"
    /\ \E x \in RaceScenarios : fs = BackupFs(x) /\ args = BackupArgs(x)
    /\ fs0 = fs
    /\ runs = 0
    /\ StartOfRun
    /\ \E nows \in [Procs -> Nows] :
         race = [p \in Procs |->
                   [pc |-> "check_src", now |-> nows[p], final |-> "", candidates |-> {},
                    result |-> "running", calls |-> <<>>]]
    /\ ren = NotStarted /\ pool = NotStarted

NextRace ==
    \E p \in Procs :
        \/ Race_CheckSrc(p)
        \/ Race_CheckFinal(p)
        \/ Race_GetCandidates(p)
        \/ Race_Rename(p)
        \/ Race_Synchronize(p)

SpecRace == InitRace /\ [][NextRace]_vars

-----------------------------------------------------------------------------
(* The renamer (src/coroutine): a file of 42 bytes or more is renamed with *)
(* the date and a number.  The rule is written twice: as a coroutine       *)
(* (renamer::work, driven by the loop of sync_renamer) and as a function   *)
(* that takes the clock and the existence test as closures                 *)
(* (generic_renamer::work).  `ren` holds the arguments, the files that     *)
(* exist, the coroutine or the locals of the function, the requests made   *)
(* so far (`asked`) and what `work` returned (`action`).                   *)

MaxNumber == 3        \* largest number of a dated file that exists already

None == [some |-> FALSE, path |-> ""]
RenameTo(path) == [some |-> TRUE, path |-> path]

\* now.format("[year]-[month]-[day]")
FormatDate(now) ==
    (IF now.year < 0 THEN "-" \o Pad4(-now.year) ELSE Pad4(now.year))
        \o "-" \o Pad2(now.month) \o "-" \o Pad2(now.day)

\* {number} of format!: the decimal digits.
RECURSIVE Decimal(_)
Decimal(n) == IF n < 10 THEN Digit(n) ELSE Decimal(n \div 10) \o Digit(n % 10)

\* format!("{file_path}.{formatted_date}.{number}")
get_candidate(file_path, formatted_date, number) ==
    file_path \o "." \o formatted_date \o "." \o Decimal(number)

\* enum Yield
WantsNow(file_path) == [tag |-> "WantsNow", file_path |-> file_path]
WantsExists(file_path, formatted_date, number, candidate) ==
    [tag |-> "WantsExists", file_path |-> file_path, formatted_date |-> formatted_date,
     number |-> number, candidate |-> candidate]
YieldReturn(action) == [tag |-> "Return", action |-> action]

\* renamer::work
renamer_work(file_path, size) ==
    IF size >= 42 THEN WantsNow(file_path) ELSE YieldReturn(None)

\* WantsNow::resume
WantsNow_resume(self, now) ==
    LET formatted_date == FormatDate(now)
        number == 1
    IN  WantsExists(self.file_path, formatted_date, number,
                    get_candidate(self.file_path, formatted_date, number))

\* WantsExists::get_arg
WantsExists_get_arg(self) == self.candidate

\* Faulty variant of WantsExists::resume: the number is increased by two.
WantsExists_resume_skipping_a_number(self, exists) ==
    IF exists
    THEN WantsExists(self.file_path, self.formatted_date, self.number + 2,
                     get_candidate(self.file_path, self.formatted_date, self.number + 2))
    ELSE YieldReturn(RenameTo(self.candidate))

\* WantsExists::resume
WantsExists_resume(self, exists) ==
    IF exists
    THEN LET number == self.number + 1 IN
         WantsExists(self.file_path, self.formatted_date, number,
                     get_candidate(self.file_path, self.formatted_date, number))
    ELSE YieldReturn(RenameTo(self.candidate))

\* A request to the outside: the clock, or the existence of a path.
AskedNow == [q |-> "now", arg |-> ""]
AskedExists(path) == [q |-> "exists", arg |-> path]

\* common::get_now and common::exists return Ok or an error (the local
\* offset cannot be determined, the path cannot be looked at), whatever the
\* files are.
Answers == {"ok", "failed"}

\* sync_renamer: let mut coroutine = work(&file_path, size);
Sync_Work ==
    /\ ren # NotStarted /\ ren.driver = "coroutine" /\ ren.pc = "start"
    /\ ren' = [ren EXCEPT !.co = renamer_work(ren.file_path, ren.size), !.pc = "loop"]
    /\ UNCHANGED <<engine, race, pool>>

\* Yield::WantsNow(coroutine) => { let now = get_now()?; coroutine.resume(now) }
Sync_WantsNow ==
    /\ ren # NotStarted /\ ren.driver = "coroutine" /\ ren.pc = "loop"
    /\ ren.co.tag = "WantsNow"
    /\ \E answer \in Answers :
         IF answer = "failed"
         THEN ren' = [ren EXCEPT !.pc = "done", !.asked = Append(@, AskedNow),
                                 !.err = "failed to determine the local offset"]
         ELSE ren' = [ren EXCEPT !.co = WantsNow_resume(ren.co, ren.now),
                                 !.asked = Append(@, AskedNow)]
    /\ UNCHANGED <<engine, race, pool>>

\* Yield::WantsExists(coroutine) => {
\*     let exists = exists(coroutine.get_arg())?; coroutine.resume(exists) }
Sync_WantsExists ==
    /\ ren # NotStarted /\ ren.driver = "coroutine" /\ ren.pc = "loop"
    /\ ren.co.tag = "WantsExists"
    /\ \E answer \in Answers :
         LET arg == WantsExists_get_arg(ren.co) IN
         IF answer = "failed"
         THEN ren' = [ren EXCEPT !.pc = "done", !.asked = Append(@, AskedExists(arg)),
                                 !.err = "failed to get the existence"]
         ELSE ren' = [ren EXCEPT !.co = WantsExists_resume(ren.co, arg \in ren.files),
                                 !.asked = Append(@, AskedExists(arg))]
    /\ UNCHANGED <<engine, race, pool>>

\* Yield::Return(action) => break action
Sync_Return ==
    /\ ren # NotStarted /\ ren.driver = "coroutine" /\ ren.pc = "loop"
    /\ ren.co.tag = "Return"
    /\ ren' = [ren EXCEPT !.action = ren.co.action, !.pc = "returned"]
    /\ UNCHANGED <<engine, race, pool>>

\* generic_renamer::work: if size >= 42 { .. } Ok(None)
Generic_Work ==
    /\ ren # NotStarted /\ ren.driver = "generic" /\ ren.pc = "start"
    /\ IF ren.size >= 42
       THEN ren' = [ren EXCEPT !.pc = "get_now"]
       ELSE ren' = [ren EXCEPT !.action = None, !.pc = "returned"]
    /\ UNCHANGED <<engine, race, pool>>

\* get_destination_path: let now = get_now()?; the date; let mut number = 1;
Generic_GetNow ==
    /\ ren # NotStarted /\ ren.driver = "generic" /\ ren.pc = "get_now"
    /\ \E answer \in Answers :
         IF answer = "failed"
         THEN ren' = [ren EXCEPT !.pc = "done", !.asked = Append(@, AskedNow),
                                 !.err = "failed to determine the local offset"]
         ELSE ren' = [ren EXCEPT !.formatted_date = FormatDate(ren.now), !.number = 1,
                                 !.asked = Append(@, AskedNow), !.pc = "exists"]
    /\ UNCHANGED <<engine, race, pool>>

\* get_destination_path, one turn of the loop:
\* if !exists(&candidate)? { break Ok(candidate); } number += 1;
Generic_Exists ==
    /\ ren # NotStarted /\ ren.driver = "generic" /\ ren.pc = "exists"
    /\ \E answer \in Answers :
         LET candidate == get_candidate(ren.file_path, ren.formatted_date, ren.number) IN
         IF answer = "failed"
         THEN ren' = [ren EXCEPT !.pc = "done", !.asked = Append(@, AskedExists(candidate)),
                                 !.err = "failed to get the existence"]
         ELSE IF candidate \notin ren.files
         THEN ren' = [ren EXCEPT !.action = RenameTo(candidate), !.pc = "returned",
                                 !.asked = Append(@, AskedExists(candidate))]
         ELSE ren' = [ren EXCEPT !.number = @ + 1,
                                 !.asked = Append(@, AskedExists(candidate))]
    /\ UNCHANGED <<engine, race, pool>>

\* The end of both main functions:
\* Some(RenameTo(dst_path)) => rename(&file_path, &dst_path), None => Ok(())
\* common::rename renames and writes a line to stdout.
Renamer_Finish ==
    /\ ren # NotStarted /\ ren.pc = "returned"
    /\ IF ~ren.action.some THEN ren' = [ren EXCEPT !.pc = "done"]
       ELSE \E out \in StdoutOutcomes :
              ren' = [ren EXCEPT
                        !.files = (@ \ {ren.file_path}) \cup {ren.action.path},
                        !.pc = "done",
                        !.err = IF out = "failed" THEN "failed to write to stdout" ELSE ""]
    /\ UNCHANGED <<engine, race, pool>>

\* The file, its sizes around the limit, the days, and the dated files that
\* may exist already (tests::demo, first_backup_of_the_day,
\* noop_because_the_file_is_small).
RenFilePath == "app.log"
RenSizes == {0, 41, 42, 300}
RenNows == {Time(2011, 12, 13, 14, 15, 16), Time(2011, 12, 14, 0, 0, 0)}
DatedFiles ==
    {get_candidate(RenFilePath, FormatDate(t), n) : t \in RenNows, n \in 1..MaxNumber}

InitRenamer ==
    /\ \E driver \in {"coroutine", "generic"}, size \in RenSizes, now \in RenNows,
          dated \in SUBSET DatedFiles :
         ren = [driver |-> driver, file_path |-> RenFilePath, size |-> size, now |-> now,
                files |-> {RenFilePath} \cup dated, files0 |-> {RenFilePath} \cup dated,
                pc |-> "start", co |-> <<>>, formatted_date |-> "", number |-> 0,
                asked |-> <<>>, action |-> None, err |-> ""]
    /\ fs = <<>> /\ fs0 = <<>> /\ tool = "renamer" /\ args = <<>> /\ pc = "done"
    /\ runs = 0
    /\ StartOfRun
    /\ race = NotStarted /\ pool = NotStarted

NextRenamer ==
    \/ Sync_Work
    \/ Sync_WantsNow
    \/ Sync_WantsExists
    \/ Sync_Return
    \/ Generic_Work
    \/ Generic_GetNow
    \/ Generic_Exists
    \/ Renamer_Finish

SpecRenamer == InitRenamer /\ [][NextRenamer]_vars

-----------------------------------------------------------------------------
(* The thread pool (src/structured_concurrency).  The main thread creates  *)
(* the pool (ThreadPool::new spawns the workers), passes the jobs to       *)
(* execute one after the other and drops the pool; each worker loops on    *)
(* receiver.lock().unwrap().recv().  `pool` holds the channel (the queue   *)
(* of jobs sent and whether the Sender is alive), the holder of the mutex, *)
(* the position of each thread and, for each job, how many times and by    *)
(* which workers it was called.  The lines written with println! are not   *)
(* part of the model.                                                      *)

MaxThreads == 2       \* largest thread_count
MaxJobs == 3          \* largest number of jobs passed to execute

\* What a job does when it is called: it returns, it panics, or it never
\* ends.
JobKinds == {"returns", "panics", "loops"}

WorkerIds == 0..(MaxThreads - 1)
Free == -1
Workers == {w \in WorkerIds : pool # NotStarted /\ w < pool.thread_count}
JobIds == 1..Len(pool.jobs)

\* ThreadPool::execute: self.sender.as_ref().unwrap().send(job).unwrap()
\* The Receiver lives as long as the scope, so send does not fail.
ThreadPool_execute ==
    /\ pool # NotStarted /\ pool.main = "execute"
    /\ pool.sent < Len(pool.jobs)
    /\ pool' = [pool EXCEPT !.sent = @ + 1, !.queue = Append(@, pool.sent + 1)]
    /\ UNCHANGED <<engine, race, ren>>

\* Faulty variant of ThreadPool_drop_sender: the Sender is kept.
ThreadPool_drop_keeping_the_sender ==
    /\ pool # NotStarted /\ pool.main = "execute"
    /\ pool.sent = Len(pool.jobs)
    /\ pool' = [pool EXCEPT !.main = "join", !.joining = 0]
    /\ UNCHANGED <<engine, race, ren>>

\* Drop for ThreadPool, first statement: drop(self.sender.take()).  The pool
\* is dropped at the end of the closure of thread::scope, after the calls of
\* execute.
ThreadPool_drop_sender ==
    /\ pool # NotStarted /\ pool.main = "execute"
    /\ pool.sent = Len(pool.jobs)
    /\ pool' = [pool EXCEPT !.sender = FALSE, !.main = "join", !.joining = 0]
    /\ UNCHANGED <<engine, race, ren>>

\* Drop for ThreadPool, one turn of the loop: worker.thread.join().unwrap().
\* join returns when the thread has ended; it returns Err when the thread
\* has panicked, and unwrap then panics in the main thread.
ThreadPool_drop_join ==
    /\ pool # NotStarted /\ pool.main = "join"
    /\ LET w == pool.joining IN
       /\ pool.worker[w].pc \in {"exited", "panicked"}
       /\ pool' = [pool EXCEPT
                     !.main = IF pool.worker[w].pc = "panicked" THEN "panicked"
                              ELSE IF w + 1 = pool.thread_count THEN "dropped"
                              ELSE "join",
                     !.joining = w + 1]
    /\ UNCHANGED <<engine, race, ren>>

\* receiver.lock().unwrap(): the worker waits for the mutex.  No thread
\* panics while it holds the guard, so the mutex is never poisoned.
Worker_lock(w) ==
    /\ w \in Workers /\ pool.worker[w].pc = "lock"
    /\ pool.lock = Free
    /\ pool' = [pool EXCEPT !.lock = w, !.worker[w].pc = "recv"]
    /\ UNCHANGED <<engine, race, ren>>

\* Faulty variant of Worker_recv_job: the job is called and stays in the
\* channel.
Worker_recv_leaving_the_job(w) ==
    /\ w \in Workers /\ pool.worker[w].pc = "recv"
    /\ pool.queue # <<>>
    /\ LET job == Head(pool.queue) IN
       pool' = [pool EXCEPT !.lock = Free,
                            !.worker[w].pc = "job", !.worker[w].job = job,
                            !.called[job] = @ + 1, !.by[job] = @ \cup {w}]
    /\ UNCHANGED <<engine, race, ren>>

\* .recv() returns Ok(job): the oldest job is taken from the channel; the
\* guard is dropped at the end of the `let` statement, before job() is
\* called.
Worker_recv_job(w) ==
    /\ w \in Workers /\ pool.worker[w].pc = "recv"
    /\ pool.queue # <<>>
    /\ LET job == Head(pool.queue) IN
       pool' = [pool EXCEPT !.queue = Tail(@), !.lock = Free,
                            !.worker[w].pc = "job", !.worker[w].job = job,
                            !.called[job] = @ + 1, !.by[job] = @ \cup {w}]
    /\ UNCHANGED <<engine, race, ren>>

\* .recv() returns Err: the channel is empty and the Sender was dropped.
\* The worker leaves its loop.  (With an empty channel and the Sender
\* alive, recv blocks: the worker keeps the mutex and has no step.)
Worker_recv_disconnected(w) ==
    /\ w \in Workers /\ pool.worker[w].pc = "recv"
    /\ pool.queue = <<>> /\ ~pool.sender
    /\ pool' = [pool EXCEPT !.lock = Free, !.worker[w].pc = "exited"]
    /\ UNCHANGED <<engine, race, ren>>

\* job() ends: it returns and the worker loops, or it panics and the thread
\* of the worker ends.  A job that never ends has no such step.
Worker_job_ends(w) ==
    /\ w \in Workers /\ pool.worker[w].pc = "job"
    /\ LET job == pool.worker[w].job IN
       /\ pool.jobs[job] # "loops"
       /\ pool' = [pool EXCEPT
                     !.worker[w].pc = IF pool.jobs[job] = "panics" THEN "panicked" ELSE "lock",
                     !.completed = IF pool.jobs[job] = "returns" THEN @ \cup {job} ELSE @]
    /\ UNCHANGED <<engine, race, ren>>

\* After ThreadPool::new: the workers are spawned, nothing was sent.
InitPool ==
    /\ \E thread_count \in 1..MaxThreads, jobs \in SeqsUpTo(JobKinds, MaxJobs) :
         pool = [thread_count |-> thread_count, jobs |-> jobs, sent |-> 0,
                 queue |-> <<>>, sender |-> TRUE, lock |-> Free,
                 worker |-> [w \in 0..(thread_count - 1) |-> [pc |-> "lock", job |-> 0]],
                 called |-> [j \in 1..Len(jobs) |-> 0],
                 by |-> [j \in 1..Len(jobs) |-> {}],
                 completed |-> {}, main |-> "execute", joining |-> 0]
    /\ fs = <<>> /\ fs0 = <<>> /\ tool = "pool" /\ args = <<>> /\ pc = "done"
    /\ runs = 0
    /\ StartOfRun
    /\ race = NotStarted /\ ren = NotStarted

MainStep ==
    \/ ThreadPool_execute
    \/ ThreadPool_drop_sender
    \/ ThreadPool_drop_join

WorkerStep(w) ==
    \/ Worker_lock(w)
    \/ Worker_recv_job(w)
    \/ Worker_recv_disconnected(w)
    \/ Worker_job_ends(w)

NextPool ==
    \/ MainStep
    \/ \E w \in WorkerIds : WorkerStep(w)

SpecPool == InitPool /\ [][NextPool]_vars

\* Every thread that can take a step takes one in the end: the scheduler
\* runs each thread that is not blocked, a mutex that stays free is given to
\* a thread that waits for it, and a job that returns or panics does so in
\* a finite time.
SpecPoolFair ==
    /\ InitPool /\ [][NextPool]_vars
    /\ WF_vars(MainStep)
    /\ \A w \in WorkerIds : WF_vars(WorkerStep(w))

-----------------------------------------------------------------------------
(* What the properties speak about: the calls a run made, and what the     *)
(* arguments of the current run designate in the file system it started    *)
(* from.                                                                   *)

\* The calls of the current run that act on the file system.
Calls == SelectSeq(trace, LAMBDA e : e.op # "print")
NoCalls == Calls = <<>>

\* synchronize_partially: the paths of subpath i and what they were when the
\* run started.
SubpathIndexes == 1..Len(args.subpaths)
SrcPath(i) == Join(args.src_prefix_path, args.subpaths[i])
DstPath(i) == Join(args.dst_prefix_path, args.subpaths[i])
SrcKind0(i) == Metadata(fs0, SrcPath(i))
DstKind0(i) == SymlinkMetadata(fs0, DstPath(i))
DstTargetKind0(i) == Metadata(fs0, DstPath(i))
SubpathPlan(i) ==
    plan_subpath(fs0, args.src_prefix_path, args.dst_prefix_path, args.subpaths[i])

AllRelative == \A i \in SubpathIndexes : IsRelative(args.subpaths[i])
PrefixesAreDirectories ==
    /\ check_is_directory(fs0, args.src_prefix_path) = "ok"
    /\ check_is_directory(fs0, args.dst_prefix_path) = "ok"
\* Planning is reached and subpath i is the first it refuses, if any.
PlanningReaches(i) ==
    /\ AllRelative /\ PrefixesAreDirectories
    /\ \A j \in 1..(i - 1) : SubpathPlan(j).ok

\* synchronize_backup: the candidates and the new dated path when the run
\* started.
SrcDirIsOk0 == check_src_dir_path_is_ok(fs0, args.src_dir_path) = "ok"
FinalPath0 ==
    get_final_dst_path(FileName(args.src_dir_path), args.dst_dir_path, args.now)
FinalPathIsOk0 == check_is_directory_or_does_not_exist(fs0, FinalPath0) = "ok"
Candidates0 ==
    IF HasFileName(args.src_dir_path)
    THEN get_candidates(fs0, FileName(args.src_dir_path), args.dst_dir_path).paths
    ELSE {}
TheCandidate0 == CHOOSE c \in Candidates0 : TRUE

-----------------------------------------------------------------------------
(* C1 *)

PlanningFails == \E i \in SubpathIndexes : ~SubpathPlan(i).ok

\* C1: in synchronize_partially, when planning fails for some subpath of the
\* list, no call that changes the file system is made for any subpath, the
\* valid ones listed before it included: the run does not succeed and the
\* file system (the destination tree with it) is at every moment what it was
\* before the call.
C1_FailedPlanningChangesNothing ==
    (tool = "partial" /\ PlanningFails) =>
        /\ NoCalls
        /\ fs = fs0
        /\ actions = <<>>
        /\ result # "ok"

\* A run over: planning accepted the first subpath, whose action would have
\* changed the destination, refused the second, and `work` returned the
\* error of the second.
C1_Witness ==
    /\ tool = "partial" /\ pc = "done"
    /\ Len(args.subpaths) = 2
    /\ PlanningReaches(2)
    /\ ~SubpathPlan(2).ok
    /\ result = SubpathPlan(2).err
    /\ SubpathPlan(1).operation \in {"RemoveDestFileAndCopyDir", "RemoveDestDirAndCopyFile"}

-----------------------------------------------------------------------------
(* C2 *)

\* C2, as stated, for a valid source directory: with two candidates or more
\* the run always ends with the several-candidates error.
C2_AlwaysTheSeveralCandidatesError ==
    (tool = "backup" /\ pc = "done" /\ SrcDirIsOk0 /\ Cardinality(Candidates0) >= 2) =>
        /\ result = "there are several candidates"
        /\ NoCalls
        /\ fs = fs0

\* C2, amended: when the destination holds two candidates or more for the
\* name of the source, synchronize_backup fails, renames nothing, does not
\* call rsync and leaves the file system unchanged; the error is the
\* several-candidates one when the source is a valid directory and the new
\* dated path is absent or a real directory (otherwise the earlier check
\* that fails gives the error).
C2_SeveralCandidates ==
    (tool = "backup" /\ Cardinality(Candidates0) >= 2) =>
        /\ NoCalls
        /\ fs = fs0
        /\ result # "ok"
        /\ (pc = "done" /\ SrcDirIsOk0 /\ FinalPathIsOk0)
              => result = "there are several candidates"
        /\ (pc = "done" /\ SrcDirIsOk0 /\ ~FinalPathIsOk0)
              => result = "exists but is not a directory"

C2_Witness ==
    /\ tool = "backup" /\ pc = "done"
    /\ Cardinality(Candidates0) >= 2
    /\ Cardinality(candidates) >= 2
    /\ result = "there are several candidates"

-----------------------------------------------------------------------------
(* C3 *)

\* The call of rename from `old` to `new` succeeded, and rsync was not
\* called before it.
RenamedBeforeSync(old, new) ==
    \E i \in 1..Len(Calls) :
        /\ Calls[i] = Called("rename", old, new, TRUE)
        /\ \A j \in 1..Len(Calls) : Calls[j].op = "rsync" => i < j

\* C3, as stated, for a valid source directory: with exactly one candidate,
\* the run renames it to the new dated name before rsync is called and the
\* old name is gone after the run.
C3_AlwaysRenamedAndOldNameGone ==
    (tool = "backup" /\ pc = "done" /\ SrcDirIsOk0 /\ Cardinality(Candidates0) = 1) =>
        /\ RenamedBeforeSync(TheCandidate0, FinalPath0)
        /\ SymlinkMetadata(fs, TheCandidate0) = "none"

\* C3, amended: when the source is a valid directory, the new dated path is
\* absent or a real directory and the destination holds exactly one
\* candidate, the first call of the run is the rename of the candidate to
\* the new dated path, it succeeds, and rsync is called after it.  After the
\* run the new dated path is a directory, and the old name no longer exists
\* unless it is the new dated name itself (a run in the minute of the
\* candidate), in which case the directory keeps its name.
C3_OneCandidateIsRenamedFirst ==
    (tool = "backup" /\ Cardinality(Candidates0) = 1 /\ SrcDirIsOk0 /\ FinalPathIsOk0) =>
        /\ Calls # <<>> => Calls[1] = Called("rename", TheCandidate0, FinalPath0, TRUE)
        /\ pc = "done" =>
              /\ RenamedBeforeSync(TheCandidate0, FinalPath0)
              /\ result = "ok" => (Len(Calls) = 2 /\ Calls[2].op = "rsync")
              /\ SymlinkMetadata(fs, FinalPath0) = "dir"
              /\ (TheCandidate0 # FinalPath0) => SymlinkMetadata(fs, TheCandidate0) = "none"

\* A successful run that found one candidate under an older name.
C3_Witness ==
    /\ tool = "backup" /\ pc = "done" /\ result = "ok"
    /\ Cardinality(Candidates0) = 1
    /\ TheCandidate0 # FinalPath0
    /\ SymlinkMetadata(fs0, TheCandidate0) = "dir"
    /\ SymlinkMetadata(fs, TheCandidate0) = "none"
    /\ RenamedBeforeSync(TheCandidate0, FinalPath0)

-----------------------------------------------------------------------------
(* C4 *)

\* The destination directory and the new dated directory, as canonical paths.
DstDir0 == Resolve(fs0, args.dst_dir_path, TRUE).at
FinalName0 == FileName(args.src_dir_path) \o FormatSuffix(args.now)
FinalDir0 == Append(DstDir0, FinalName0)

\* The shape _dddd-dd-dd-ddhdd, d a decimal digit.
IsDatedSuffix(t) ==
    /\ Len(t) = 17
    /\ \A i \in 1..17 :
         SubSeq(t, i, i) = (CASE i = 1 -> "_"
                              [] i \in {6, 9, 12} -> "-"
                              [] i = 15 -> "h"
                              [] OTHER -> SubSeq(t, i, i))
    /\ \A i \in (1..17) \ {1, 6, 9, 12, 15} :
         SubSeq(t, i, i) \in {"0", "1", "2", "3", "4", "5", "6", "7", "8", "9"}

\* The name is exactly the base name followed by a dated suffix.
NamedAfter(name, base) ==
    /\ Len(name) = Len(base) + 17
    /\ SubSeq(name, 1, Len(base)) = base
    /\ IsDatedSuffix(SubSeq(name, Len(base) + 1, Len(name)))

\* The entries of the destination directory that are real directories named
\* after the source.
DatedDirectories0 ==
    {n \in Children(fs0, DstDir0) :
       KindAt(fs0, Append(DstDir0, n)) = "dir" /\ NamedAfter(n, FileName(args.src_dir_path))}

\* C4: when the source is a valid directory and the destination a readable
\* directory with no candidate for the name of the source (no real
\* directory named after the source with a dated suffix), a successful run
\* of synchronize_backup adds exactly one entry to the destination directory,
\* the directory <name of the source>_<formatted now>, whose tree is the
\* tree of the source; it renames nothing, and every other entry (of the
\* destination and of the rest of the file system) is what it was.
C4_OneNewDatedDirectory ==
    (/\ tool = "backup" /\ pc = "done" /\ result = "ok"
     /\ SrcDirIsOk0 /\ ReadDir(fs0, args.dst_dir_path).ok /\ DatedDirectories0 = {}) =>
        /\ FinalName0 \notin Children(fs0, DstDir0)
        /\ Children(fs, DstDir0) = Children(fs0, DstDir0) \cup {FinalName0}
        /\ KindAt(fs, FinalDir0) = "dir"
        /\ Subtree(fs, FinalDir0) = Subtree(fs0, Resolve(fs0, args.src_dir_path, TRUE).at)
        /\ Without(fs, Under(fs, FinalDir0)) = fs0
        /\ \A i \in 1..Len(Calls) : Calls[i].op = "rsync"

\* A successful first backup, in a destination that holds other entries
\* with dated names (none a directory).
C4_Witness ==
    /\ tool = "backup" /\ pc = "done" /\ result = "ok"
    /\ SrcDirIsOk0 /\ Candidates0 = {}
    /\ \E n \in DatedNames : n \in Children(fs0, DstDir0)
    /\ FinalName0 \in Children(fs, DstDir0) \ Children(fs0, DstDir0)
    /\ Subtree(fs, FinalDir0) # <<>>

-----------------------------------------------------------------------------
(* C5 *)

\* The table of the operations for a destination that is not a symlink.
TableOperation(src_is_dir, dst_kind) ==
    IF src_is_dir
    THEN (IF dst_kind = "file" THEN "RemoveDestFileAndCopyDir" ELSE "SynchronizeDir")
    ELSE (IF dst_kind = "dir" THEN "RemoveDestDirAndCopyFile" ELSE "CopyFile")

\* C5: for a subpath whose source exists and whose destination is not a
\* symlink, the planner chooses one operation, from the kind of the source
\* and the state of the destination alone: source directory and destination
\* absent or directory, SynchronizeDir; source directory and destination
\* file, RemoveDestFileAndCopyDir; source file and destination absent or
\* file, CopyFile; source file and destination directory,
\* RemoveDestDirAndCopyFile.  The Vec built by planning holds that operation
\* at the place of the subpath.
C5_OperationTable ==
    tool = "partial" =>
        \A i \in SubpathIndexes :
            (SrcKind0(i) # "none" /\ DstKind0(i) # "link") =>
                /\ SubpathPlan(i) = Planned(TableOperation(SrcKind0(i) = "dir", DstKind0(i)))
                /\ actions # <<>> =>
                      /\ Len(actions) = Len(args.subpaths)
                      /\ actions[i] = Action(SrcPath(i), DstPath(i),
                                             TableOperation(SrcKind0(i) = "dir", DstKind0(i)))

\* A run that planned and executed the two operations with a removal: a
\* directory over a file and a file over a directory.
C5_Witness ==
    /\ tool = "partial" /\ pc = "done" /\ result = "ok"
    /\ Len(actions) = 2
    /\ \E i, j \in SubpathIndexes :
          /\ SrcKind0(i) = "dir" /\ DstKind0(i) = "file"
          /\ actions[i].operation = "RemoveDestFileAndCopyDir"
          /\ SrcKind0(j) = "file" /\ DstKind0(j) = "dir"
          /\ actions[j].operation = "RemoveDestDirAndCopyFile"

-----------------------------------------------------------------------------
(* C6 *)

\* The destination of subpath i is a symlink whose final target is of the
\* other kind than the source.
Mismatch0(i) ==
    /\ SrcKind0(i) # "none"
    /\ DstKind0(i) = "link"
    /\ DstTargetKind0(i) # "none"
    /\ (SrcKind0(i) = "dir") # (DstTargetKind0(i) = "dir")
MismatchError(i) ==
    IF SrcKind0(i) = "dir" THEN "is a symlink whose final target is a file"
    ELSE "is a symlink whose final target is a directory"

\* C6: in synchronize_partially, when the destination of a subpath is a
\* symlink whose final target is a file while the source is a directory, or
\* a directory while the source is a file, planning refuses the subpath with
\* the error that names the kind of the final target; the run makes no call
\* and does not succeed, so that the symlink, the links of its chain and the
\* target stay as they were; and `work` returns that error when the subpath
\* is the first that planning refuses.
C6_MismatchedSymlinkIsRefused ==
    tool = "partial" =>
        \A i \in SubpathIndexes :
            Mismatch0(i) =>
                /\ SubpathPlan(i) = Refused(MismatchError(i))
                /\ NoCalls /\ fs = fs0 /\ actions = <<>>
                /\ result # "ok"
                /\ (pc = "done" /\ PlanningReaches(i)) => result = MismatchError(i)

\* A run over with the error of the mismatch, for a symlink listed after a
\* subpath that planning accepted.
C6_Witness ==
    /\ tool = "partial" /\ pc = "done"
    /\ Len(args.subpaths) = 2
    /\ SubpathPlan(1).ok
    /\ Mismatch0(2) /\ PlanningReaches(2)
    /\ result = MismatchError(2)
    /\ DstKind0(2) = "link" /\ SymlinkMetadata(fs, DstPath(2)) = "link"

-----------------------------------------------------------------------------
(* C7 *)

\* A symlink whose chain ends nowhere.
Dangling(f, path) == SymlinkMetadata(f, path) = "link" /\ Metadata(f, path) = "none"

\* C7: a dangling symlink at the destination path is an error and not an
\* absent destination.  In synchronize_partially, planning refuses the
\* subpath, for a directory source and a file source alike; in
\* synchronize_backup, the check of the new dated path fails (it gives the
\* error of the run when the source is valid).  In both, the run does not
\* succeed and makes no call: the link stays and nothing is written.
C7_DanglingSymlinkIsAnError ==
    /\ tool = "partial" =>
          \A i \in SubpathIndexes :
              Dangling(fs0, DstPath(i)) =>
                  /\ ~SubpathPlan(i).ok
                  /\ \A src_is_dir \in BOOLEAN :
                        ~check_dst_path_is_ok(fs0, src_is_dir, DstPath(i)).ok
                  /\ NoCalls /\ fs = fs0 /\ actions = <<>>
                  /\ result # "ok"
                  /\ Dangling(fs, DstPath(i))
    /\ (tool = "backup" /\ HasFileName(args.src_dir_path) /\ Dangling(fs0, FinalPath0)) =>
          /\ ~FinalPathIsOk0
          /\ NoCalls /\ fs = fs0
          /\ result # "ok"
          /\ pc \in {"check_src", "check_final", "done"}
          /\ (pc = "done" /\ SrcDirIsOk0) => result = "exists but is not a directory"
          /\ Dangling(fs, FinalPath0)

\* A run of synchronize_partially over, refused for the dangling symlink at
\* the destination of a directory listed after a subpath planning accepted.
C7_Witness ==
    /\ tool = "partial" /\ pc = "done"
    /\ Len(args.subpaths) = 2
    /\ SubpathPlan(1).ok
    /\ SrcKind0(2) = "dir" /\ Dangling(fs0, DstPath(2)) /\ PlanningReaches(2)
    /\ result = "is a broken symlink"
    /\ Dangling(fs, DstPath(2))

\* The same in synchronize_backup: the new dated path is a dangling symlink.
C7_BackupReached ==
    /\ tool = "backup" /\ pc = "done"
    /\ SrcDirIsOk0 /\ Dangling(fs0, FinalPath0)
    /\ result = "exists but is not a directory"

-----------------------------------------------------------------------------
(* C8 *)

\* C8, as stated: planning does not refuse a subpath whose destination is a
\* dangling symlink, and plans SynchronizeDir for a directory source and
\* CopyFile for a file source.
C8_DanglingSymlinkIsPlanned ==
    (tool = "partial" /\ pc = "done") =>
        \A i \in SubpathIndexes :
            (SrcKind0(i) # "none" /\ Dangling(fs0, DstPath(i)) /\ PlanningReaches(i)) =>
                /\ result # "is a broken symlink"
                /\ SubpathPlan(i) =
                      Planned(IF SrcKind0(i) = "dir" THEN "SynchronizeDir" ELSE "CopyFile")

\* C8, amended: planning refuses a subpath whose destination is a dangling
\* symlink with the error "is a broken symlink", when the source is a
\* directory and when it is a file alike; no operation is planned, and
\* `work` returns that error when the subpath is the first that planning
\* refuses.
C8_DanglingSymlinkIsRefused ==
    tool = "partial" =>
        \A i \in SubpathIndexes :
            (SrcKind0(i) # "none" /\ Dangling(fs0, DstPath(i))) =>
                /\ SubpathPlan(i) = Refused("is a broken symlink")
                /\ actions = <<>>
                /\ (pc = "done" /\ PlanningReaches(i)) => result = "is a broken symlink"

\* A run over with that error, for a file source.
C8_Witness ==
    /\ tool = "partial" /\ pc = "done"
    /\ \E i \in SubpathIndexes :
          /\ SrcKind0(i) = "file" /\ Dangling(fs0, DstPath(i)) /\ PlanningReaches(i)
    /\ result = "is a broken symlink"
    /\ trace = <<>>

-----------------------------------------------------------------------------
(* C9 *)

\* The chain of the entry at canonical path p: p, and while the entry is a
\* symlink, the entry its target names, down to the final target.
RECURSIVE ChainAt(_, _, _)
ChainAt(f, p, hops) ==
    IF hops = 0 \/ p \notin DOMAIN f \/ f[p].kind # "link" THEN {p}
    ELSE LET r == Walk(f, Parent(p), Components(f[p].target), FALSE, MaxHops) IN
         {p} \cup (IF r.st = "found" THEN ChainAt(f, r.at, hops - 1) ELSE {})
Chain(f, s) ==
    LET r == Resolve(f, s, FALSE) IN
    IF r.st = "found" THEN ChainAt(f, r.at, MaxHops) ELSE {}

\* The destination of subpath i is a symlink whose final target is of the
\* kind of the source.
SameKind0(i) ==
    /\ SrcKind0(i) \in {"dir", "file"}
    /\ DstKind0(i) = "link"
    /\ DstTargetKind0(i) = SrcKind0(i)
BaseOperation(i) == IF SrcKind0(i) = "dir" THEN "SynchronizeDir" ELSE "CopyFile"

\* The links of the chain of the destination of subpath i are the symlinks
\* they were.
ChainIsKept(i) ==
    \A p \in Chain(fs0, DstPath(i)) :
        fs0[p].kind = "link" => (p \in DOMAIN fs /\ fs[p] = fs0[p])

\* The final target of the destination of subpath i holds what the source
\* held.
TargetHoldsSource(i) ==
    LET t == Resolve(fs0, DstPath(i), TRUE).at
        o == Resolve(fs0, SrcPath(i), TRUE).at
    IN  /\ t \in DOMAIN fs
        /\ IF SrcKind0(i) = "dir"
           THEN fs[t].kind = "dir" /\ Subtree(fs, t) = Subtree(fs0, o)
           ELSE fs[t] = File(fs0[o].data)

\* The action of subpath i is the last one that completed.
JustDone(i) ==
    /\ idx = i + 1
    /\ pc = "exec" \/ (pc = "done" /\ result = "ok")

\* The destination of another subpath of the list is a directory that holds
\* the destination path of subpath i, a link of its chain or its target.
CoveredByAnother(i) ==
    \E j \in SubpathIndexes \ {i} :
        LET d == Resolve(fs0, DstPath(j), TRUE) IN
        /\ d.st # "err"
        /\ \E p \in Chain(fs0, DstPath(i)) : IsPrefix(d.at, p) /\ d.at # p

\* C9, as stated: when the destination of a subpath is a symlink whose final
\* target is of the kind of the source, the base operation is planned with
\* no removal, its write goes through the link (when the action is over the
\* final target holds what the source held), and after the run the
\* destination path and the links of its chain are the same symlinks.
C9_SymlinkIsAlwaysKept ==
    tool = "partial" =>
        \A i \in SubpathIndexes :
            SameKind0(i) =>
                /\ SubpathPlan(i) = Planned(BaseOperation(i))
                /\ JustDone(i) => TargetHoldsSource(i)
                /\ (pc = "done" /\ result = "ok") => ChainIsKept(i)

\* C9, amended: the same, for a subpath such that the destination of no
\* other subpath of the list is a directory holding its destination path, a
\* link of its chain or its target (the synchronization of that directory
\* replaces the symlink by a copy of what the source holds at its place).
\* For every subpath the base operation is planned with no removal, and the
\* calls made on its destination path are those of that operation alone.
C9_SymlinkIsKeptUnlessCovered ==
    tool = "partial" =>
        \A i \in SubpathIndexes :
            SameKind0(i) =>
                /\ SubpathPlan(i) = Planned(BaseOperation(i))
                /\ actions # <<>> => actions[i].operation = BaseOperation(i)
                /\ \A k \in 1..Len(Calls) :
                      Calls[k].b = DstPath(i) => Calls[k].op \in {"rsync", "copy"}
                /\ (JustDone(i) /\ ~CoveredByAnother(i)) => TargetHoldsSource(i)
                /\ (pc = "done" /\ ~CoveredByAnother(i)) => ChainIsKept(i)

\* A successful run that wrote a directory through a chain of two symlinks:
\* the target changed and the links did not.
C9_Witness ==
    /\ tool = "partial" /\ pc = "done" /\ result = "ok"
    /\ \E i \in SubpathIndexes :
          /\ SameKind0(i) /\ SrcKind0(i) = "dir" /\ ~CoveredByAnother(i)
          /\ Cardinality(Chain(fs0, DstPath(i))) = 3
          /\ ChainIsKept(i) /\ TargetHoldsSource(i)
          /\ Subtree(fs, Resolve(fs0, DstPath(i), TRUE).at)
                # Subtree(fs0, Resolve(fs0, DstPath(i), TRUE).at)

-----------------------------------------------------------------------------
(* C10 *)

SomeAbsolute == \E i \in SubpathIndexes : IsAbsolute(args.subpaths[i])

\* C10: when a subpath of the list is absolute, wherever it stands,
\* synchronize_partially fails with the error "is absolute" before it checks
\* the prefixes and before it plans or acts for any subpath: the run goes
\* from the check of the subpaths to its end, makes no call, and the file
\* system is what it was.
C10_AbsoluteSubpathFailsFirst ==
    (tool = "partial" /\ SomeAbsolute) =>
        /\ pc \in {"check_relative", "done"}
        /\ pc = "done" => result = "is absolute"
        /\ NoCalls /\ fs = fs0 /\ actions = <<>>

\* A run over with that error, for an absolute subpath listed after a
\* relative one and with a source prefix that is not a directory.
C10_Witness ==
    /\ tool = "partial" /\ pc = "done"
    /\ Len(args.subpaths) = 2
    /\ IsRelative(args.subpaths[1]) /\ IsAbsolute(args.subpaths[2])
    /\ ~PrefixesAreDirectories
    /\ result = "is absolute"

-----------------------------------------------------------------------------
(* C11 *)

\* The call the run is about to make succeeds on the file system as it is,
\* if the process and stdout let it.
NextCallCanSucceed ==
    /\ pc = "exec" =>
          LET a == actions[idx] IN
          CASE a.operation = "SynchronizeDir" ->
                 synchronize_directory(fs, a.src_path, a.dst_path).ok
            [] a.operation = "CopyFile" -> copy_file(fs, a.src_path, a.dst_path).ok
            [] a.operation = "RemoveDestFileAndCopyDir" -> remove_file(fs, a.dst_path).ok
            [] a.operation = "RemoveDestDirAndCopyFile" ->
                 remove_directory(fs, a.dst_path).ok
    /\ pc = "base" =>
          LET a == actions[idx] IN
          IF a.operation = "RemoveDestFileAndCopyDir"
          THEN synchronize_directory(fs, a.src_path, a.dst_path).ok
          ELSE copy_file(fs, a.src_path, a.dst_path).ok

\* The destination of subpath i holds an entry of the kind of the source,
\* with what the source held.
DstHoldsSource(i) ==
    LET d == Resolve(fs, DstPath(i), FALSE)
        o == Resolve(fs0, SrcPath(i), TRUE).at
    IN  /\ d.st = "found"
        /\ IF SrcKind0(i) = "dir"
           THEN KindAt(fs, d.at) = "dir" /\ Subtree(fs, d.at) = Subtree(fs0, o)
           ELSE fs[d.at] = File(fs0[o].data)

\* The list is relative, the prefixes are directories, every source exists
\* and nothing is at any destination path.
SourcesOnly ==
    /\ args.subpaths # <<>>
    /\ AllRelative /\ PrefixesAreDirectories
    /\ \A i \in SubpathIndexes : SrcKind0(i) # "none" /\ DstKind0(i) = "none"
\* Moreover the directory of every destination path exists.
DstParentsExist ==
    \A i \in SubpathIndexes : Resolve(fs0, DstPath(i), FALSE).st = "absent"

-----------------------------------------------------------------------------
(* C12: which entries of the destination directory are candidates.         *)

\* The candidate resolver has run: it gave zero or one candidate to the
\* renaming step, or the run ended on several.
CandidatesResolved ==
    /\ tool = "backup"
    /\ pc \in {"rename", "sync"} \/ result = "there are several candidates"

\* An entry of the destination directory, and what is under it, is what it
\* was when the run started.
Untouched(n) ==
    \A p \in Under(fs0, Append(DstDir0, n)) : p \in DOMAIN fs /\ fs[p] = fs0[p]

HasLineFeed(name) == \E i \in 1..Len(name) : SubSeq(name, i, i) = "\n"

\* C12 as stated: the candidates the resolver finds are the real
\* directories of the destination directory whose name is exactly the base
\* name of the source followed by _dddd-dd-dd-ddhdd, and no others; every
\* other entry of the destination directory is left untouched during the
\* run.
C12_CandidatesAreTheDatedDirectories ==
    (tool = "backup" /\ SrcDirIsOk0 /\ ReadDir(fs0, args.dst_dir_path).ok) =>
        /\ CandidatesResolved =>
             candidates = {Join(args.dst_dir_path, n) : n \in DatedDirectories0}
        /\ \A n \in Children(fs0, DstDir0) \ DatedDirectories0 : Untouched(n)

\* What holds of C12: the same, for a source whose base name holds no line
\* feed.
C12_HoldsOfPlainNames ==
    (tool = "backup" /\ HasFileName(args.src_dir_path)
                     /\ HasLineFeed(FileName(args.src_dir_path)))
        \/ C12_CandidatesAreTheDatedDirectories

\* A successful run with the odd names in the destination directory, a file
\* or a symlink under a dated name, and one dated directory, which was
\* renamed.
C12_PlainNamesReached ==
    /\ tool = "backup" /\ pc = "done" /\ result = "ok"
    /\ OddNames \subseteq Children(fs0, DstDir0)
    /\ KindAt(fs0, Append(DstDir0, "colors_2022-08-09-10h11")) \in {"file", "link"}
    /\ DatedDirectories0 = {"colors_2022-09-10-11h12"}
    /\ candidates = {"bar/colors_2022-09-10-11h12"}
    /\ \E i \in 1..Len(Calls) : Calls[i].op = "rename" /\ Calls[i].ok


-----------------------------------------------------------------------------
(* C13: a final destination path that is not a directory, and the steps    *)
(* after a failure.                                                        *)

BackupFailuresBeforeAnyCall ==
    { "does not have a name", "failed to read metadata", "is not a directory",
      "exists but is not a directory", "failed to look for candidates",
      "there are several candidates" }

\* C13: with a valid source, when the final destination path is a file or a
\* symlink (to a directory, to a file or to nothing) at the start of a run of
\* synchronize_backup, the run goes no further than the check of that path:
\* it ends with "exists but is not a directory", the candidates are not
\* looked for, nothing is renamed, rsync is not called and the file system
\* is what it was.  And a step that fails ends the run: with a failure of
\* a check or of the candidate resolver no call was made and nothing
\* changed.
C13_FinalPathThatIsNotADirectory ==
    tool = "backup" =>
        /\ (SrcDirIsOk0 /\ SymlinkMetadata(fs0, FinalPath0) \in {"file", "link"}) =>
             /\ pc \in {"check_src", "check_final", "done"}
             /\ pc = "done" => result = "exists but is not a directory"
             /\ NoCalls /\ candidates = {} /\ fs = fs0
        /\ result # "running" => pc = "done"
        /\ result \in BackupFailuresBeforeAnyCall => NoCalls /\ fs = fs0

\* A run that ended at the check of the final path, a symlink to a
\* directory, while the destination held a candidate.
C13_Witness ==
    /\ tool = "backup" /\ pc = "done" /\ result = "exists but is not a directory"
    /\ SrcDirIsOk0
    /\ SymlinkMetadata(fs0, FinalPath0) = "link" /\ Metadata(fs0, FinalPath0) = "dir"
    /\ Candidates0 # {}
    /\ NoCalls /\ fs = fs0


-----------------------------------------------------------------------------
(* C14: two runs within the same minute.                                   *)

SameMinute(t, u) ==
    /\ t.year = u.year /\ t.month = u.month /\ t.day = u.day
    /\ t.hour = u.hour /\ t.minute = u.minute

RsyncSucceeded == \E i \in 1..Len(Calls) : Calls[i].op = "rsync" /\ Calls[i].ok

SrcDir0 == Resolve(fs0, args.src_dir_path, TRUE).at

\* C14: the final path of synchronize_backup is the same for two times of
\* the same minute.  When a run starts with that path a real directory (and
\* no other candidate beside it), it does not fail before rsync, the tree of
\* that directory becomes the tree of the source once rsync has succeeded,
\* and the destination directory gets no new entry: everything out of the
\* final directory is what it was.  A successful run leaves that situation
\* to a run of the same minute: the final path is a real directory and
\* there is no other candidate.
C14_SameMinuteReusesTheDatedDirectory ==
    (tool = "backup" /\ SrcDirIsOk0) =>
        /\ \A t \in Nows : SameMinute(t, args.now) =>
             get_final_dst_path(FileName(args.src_dir_path), args.dst_dir_path, t)
                = FinalPath0
        /\ (SymlinkMetadata(fs0, FinalPath0) = "dir" /\ Candidates0 \subseteq {FinalPath0}) =>
             /\ result \in {"running", "ok", "failed to write to stdout",
                            "failed to synchronize"}
             /\ RsyncSucceeded =>
                  /\ KindAt(fs, FinalDir0) = "dir"
                  /\ Subtree(fs, FinalDir0) = Subtree(fs0, SrcDir0)
             /\ Children(fs, DstDir0) = Children(fs0, DstDir0)
             /\ Without(fs, Under(fs, FinalDir0)) = Without(fs0, Under(fs0, FinalDir0))
        /\ (pc = "done" /\ result = "ok") =>
             \A t \in Nows : SameMinute(t, args.now) =>
               LET again == get_final_dst_path(FileName(args.src_dir_path),
                                               args.dst_dir_path, t)
               IN  /\ SymlinkMetadata(fs, again) = "dir"
                   /\ get_candidates(fs, FileName(args.src_dir_path),
                                     args.dst_dir_path).paths \subseteq {again}

\* The second of two successful runs, at another second of the minute of the
\* first, which had renamed an older dated directory: the final directory
\* held the tree of the source when the run started, and it is still the
\* only dated directory.
C14_Witness ==
    /\ tool = "backup" /\ pc = "done" /\ result = "ok" /\ runs = 2
    /\ args.now.second = 59 /\ SrcDirIsOk0
    /\ SymlinkMetadata(fs0, FinalPath0) = "dir"
    /\ Subtree(fs0, FinalDir0) = Subtree(fs0, SrcDir0)
    /\ "colors_2022-08-09-10h11" \notin Children(fs0, DstDir0)
    /\ RsyncSucceeded
    /\ fs = fs0


-----------------------------------------------------------------------------
(* C15: a destination directory that cannot be listed.                     *)

\* C15: with a valid source, when the destination path of synchronize_backup
\* cannot be read as a directory at the start of the run (nothing is there,
\* or a file, a symlink to a file, a symlink to nothing), the run passes the
\* check of the final path and ends with "failed to look for candidates";
\* nothing is renamed, rsync is not called and the file system is what it
\* was: nothing appears at the destination path or under it.
C15_UnreadableDestination ==
    (tool = "backup" /\ SrcDirIsOk0 /\ ~ReadDir(fs0, args.dst_dir_path).ok) =>
        /\ pc \in {"check_src", "check_final", "candidates", "done"}
        /\ pc = "done" => result = "failed to look for candidates"
        /\ NoCalls /\ candidates = {} /\ fs = fs0

\* A run that ended on the candidate lookup with nothing at the destination
\* path, and nothing there afterwards.
C15_Witness ==
    /\ tool = "backup" /\ pc = "done" /\ result = "failed to look for candidates"
    /\ SrcDirIsOk0
    /\ SymlinkMetadata(fs0, args.dst_dir_path) = "none"
    /\ SymlinkMetadata(fs, args.dst_dir_path) = "none"
    /\ NoCalls


-----------------------------------------------------------------------------
(* C16: the source of synchronize_backup.                                  *)

SrcErrors == {"does not have a name", "failed to read metadata", "is not a directory"}

\* The error the claim gives to a source path, or "ok": the path has a
\* final name and leads, through every symlink, to a directory.
SrcVerdict0 ==
    IF ~HasFileName(args.src_dir_path) THEN "does not have a name"
    ELSE LET r == Resolve(fs0, args.src_dir_path, TRUE) IN
         IF r.st # "found" THEN "failed to read metadata"
         ELSE IF KindAt(fs0, r.at) # "dir" THEN "is not a directory"
         ELSE "ok"

\* C16: when the source path of synchronize_backup has no final name, leads
\* to nothing (it does not exist, or its chain of symlinks is broken) or
\* leads to a file, the run ends at the check of the source with the
\* matching error: the final path is not computed, the destination is not
\* read, no call is made and the file system is what it was.  A path with
\* a name that leads to a directory, through symlinks or not, passes the
\* check.
C16_SourceMustLeadToADirectory ==
    tool = "backup" =>
        /\ SrcVerdict0 # "ok" =>
             /\ pc \in {"check_src", "done"}
             /\ pc = "done" => result = SrcVerdict0
             /\ final = "" /\ candidates = {} /\ NoCalls /\ fs = fs0
        /\ SrcVerdict0 = "ok" =>
             /\ result \notin SrcErrors
             /\ pc # "check_src" => final = FinalPath0

\* A run that ended at the check of a source that is a chain of symlinks to
\* nothing, with a dated directory in the destination.
C16_Witness ==
    /\ tool = "backup" /\ pc = "done" /\ result = "failed to read metadata"
    /\ SymlinkMetadata(fs0, args.src_dir_path) = "link"
    /\ Metadata(fs0, args.src_dir_path) = "none"
    /\ "colors_2022-08-09-10h11" \in Children(fs0, DstDir0)
    /\ NoCalls /\ fs = fs0

\* A source that is a chain of symlinks to a directory was accepted and
\* mirrored.
C16_SymlinkChainAccepted ==
    /\ tool = "backup" /\ pc = "done" /\ result = "ok"
    /\ SymlinkMetadata(fs0, args.src_dir_path) = "link"
    /\ SymlinkMetadata(fs0, "foo/things") = "link"
    /\ Resolve(fs0, args.src_dir_path, TRUE).at = <<"foo", "words">>
    /\ Subtree(fs, FinalDir0) = Subtree(fs0, <<"foo", "words">>)


-----------------------------------------------------------------------------
(* C17: the order of planning and execution in synchronize_partially.      *)

\* The calls an action makes when nothing fails, in order.
CallsOfAction(a) ==
    LET removal(op) == [op |-> op, a |-> a.dst_path, b |-> ""]
        base(op) == [op |-> op, a |-> a.src_path, b |-> a.dst_path]
    IN  CASE a.operation = "SynchronizeDir" -> <<base("rsync")>>
          [] a.operation = "CopyFile" -> <<base("copy")>>
          [] a.operation = "RemoveDestFileAndCopyDir" ->
               <<removal("remove_file"), base("rsync")>>
          [] a.operation = "RemoveDestDirAndCopyFile" ->
               <<removal("remove_directory"), base("copy")>>

\* The calls of the first n actions of the plan.
RECURSIVE CallsOfActions(_, _)
CallsOfActions(list, n) ==
    IF n = 0 THEN <<>> ELSE CallsOfActions(list, n - 1) \o CallsOfAction(list[n])

\* The calls of the run, without their outcomes.
CallsMade == [k \in 1..Len(Calls) |-> [op |-> Calls[k].op, a |-> Calls[k].a, b |-> Calls[k].b]]

\* The file system after the first n calls of the run, each done to its end
\* from the file system the run started from.
ApplyCall(f, c) ==
    CASE c.op = "remove_file" -> remove_file(f, c.a).fs
      [] c.op = "remove_directory" -> remove_directory(f, c.a).fs
      [] c.op = "rsync" -> synchronize_directory(f, c.a, c.b).fs
      [] c.op = "copy" -> copy_file(f, c.a, c.b).fs
RECURSIVE Replay(_, _)
Replay(cs, n) == IF n = 0 THEN fs0 ELSE ApplyCall(Replay(cs, n - 1), cs[n])

PartialFailed == tool = "partial" /\ pc = "done" /\ result # "ok"

\* C17: in synchronize_partially no call is made before the whole plan is
\* computed, from the file system the run started from and with one action
\* per subpath.  The calls made are those of the actions before position idx,
\* complete and in the order of the plan, followed by the first calls of the
\* action at idx: one action at most is started and not over.  Only the
\* last call can have failed, and then the run is over with an error: no
\* later action is started.  The file system is what the calls made have
\* left, one after the other: what the earlier actions did is not undone
\* when one fails (the failing call itself did all or nothing).
C17_ActionsRunInOrderAfterPlanning ==
    tool = "partial" =>
        LET n == Len(Calls)
            plan == check_all_synchronizations_seem_possible(
                        fs0, args.src_prefix_path, args.dst_prefix_path, args.subpaths)
        IN  /\ pc \in {"check_relative", "check_prefixes", "plan"} =>
                 actions = <<>> /\ NoCalls /\ fs = fs0
            /\ (pc \in {"exec", "base"} \/ ~NoCalls) =>
                 /\ plan.ok /\ actions = plan.actions
                 /\ Len(actions) = Len(args.subpaths)
                 /\ idx \in 1..(Len(actions) + 1)
                 /\ idx = Len(actions) + 1 <=> (pc = "done" /\ result = "ok")
                 /\ \E m \in 0..2 :
                      /\ idx <= Len(actions) => m <= Len(CallsOfAction(actions[idx]))
                      /\ idx > Len(actions) => m = 0
                      /\ CallsMade = CallsOfActions(actions, idx - 1)
                                       \o (IF m = 0 THEN <<>>
                                           ELSE SubSeq(CallsOfAction(actions[idx]), 1, m))
                      /\ pc = "exec" => m = 0
                      /\ pc = "base" => m = 1
            /\ \A k \in 1..n : ~Calls[k].ok => (k = n /\ PartialFailed)
            /\ \/ fs = Replay(Calls, n)
               \/ n > 0 /\ ~Calls[n].ok /\ fs = Replay(Calls, n - 1)

\* A run of two actions of which the second failed, at rsync: the first
\* one, the removal of a directory and the copy of a file, left the
\* destination changed.
C17_Witness ==
    /\ PartialFailed /\ result = "failed to synchronize"
    /\ Len(actions) = 2 /\ idx = 2
    /\ actions[1].operation = "RemoveDestDirAndCopyFile"
    /\ Len(Calls) = 3 /\ Calls[1].ok /\ Calls[2].ok /\ ~Calls[3].ok
    /\ DstHoldsSource(1)
    /\ fs # fs0


-----------------------------------------------------------------------------
(* C18: the actions that remove the destination first.                     *)

RemovalOf(operation) ==
    IF operation = "RemoveDestFileAndCopyDir" THEN "remove_file" ELSE "remove_directory"
RemovalError(operation) ==
    IF operation = "RemoveDestFileAndCopyDir"
    THEN "failed to remove the file" ELSE "failed to remove the diretory"

\* C18: for an action RemoveDestFileAndCopyDir or RemoveDestDirAndCopyFile,
\* the first call is the removal of the destination path (remove_file,
\* respectively remove_directory) and the base operation (rsync,
\* respectively copy) is called after it, on the same path, only when the
\* removal has succeeded: the path is then free.  A removal that fails
\* ends the run with the error of the removal, the base operation not
\* called.  When the action is over, the destination path holds an entry of
\* the kind of the source, with what the source held.
C18_RemovalComesFirst ==
    tool = "partial" =>
        \A i \in 1..Len(actions) :
            LET a == actions[i]
                first == Len(CallsOfActions(actions, i - 1)) + 1
            IN  a.operation \in {"RemoveDestFileAndCopyDir", "RemoveDestDirAndCopyFile"} =>
                  /\ Len(Calls) >= first =>
                       /\ Calls[first].op = RemovalOf(a.operation)
                       /\ Calls[first].a = a.dst_path
                       /\ ~Calls[first].ok =>
                            /\ Len(Calls) = first
                            /\ PartialFailed /\ result = RemovalError(a.operation)
                  /\ Len(Calls) > first =>
                       /\ Calls[first].ok
                       /\ Calls[first + 1].op =
                            (IF a.operation = "RemoveDestFileAndCopyDir"
                             THEN "rsync" ELSE "copy")
                       /\ Calls[first + 1].b = a.dst_path
                  /\ (pc = "base" /\ idx = i) =>
                       /\ Len(Calls) = first
                       /\ SymlinkMetadata(fs, a.dst_path) = "none"
                  /\ JustDone(i) =>
                       /\ SymlinkMetadata(fs, a.dst_path) = SrcKind0(i)
                       /\ DstHoldsSource(i)

\* A file of the destination was removed and the directory of the source
\* synchronized at its place.
C18_Witness ==
    /\ tool = "partial" /\ pc = "done" /\ result = "ok"
    /\ Len(actions) = 1 /\ actions[1].operation = "RemoveDestFileAndCopyDir"
    /\ DstKind0(1) = "file"
    /\ Len(Calls) = 2
    /\ Calls[1].op = "remove_file" /\ Calls[1].ok
    /\ Calls[2].op = "rsync" /\ Calls[2].ok
    /\ SymlinkMetadata(fs, DstPath(1)) = "dir" /\ DstHoldsSource(1)

\* A removal that failed: the directory was already replaced by a file.
C18_RemovalFailed ==
    /\ PartialFailed /\ result = "failed to remove the diretory"
    /\ ~Calls[Len(Calls)].ok /\ Calls[Len(Calls)].op = "remove_directory"


-----------------------------------------------------------------------------
(* C19: what a synchronization of a directory leaves.                      *)

\* The directory dst leads to holds exactly what the directory src leads to
\* holds: the same names, each with the same entry, at the same depth.
MirrorOf(f, src, dst) ==
    LET s == Resolve(f, src, TRUE)
        d == Resolve(f, dst, TRUE)
    IN  /\ s.st = "found" /\ KindAt(f, s.at) = "dir"
        /\ d.st = "found" /\ KindAt(f, d.at) = "dir"
        /\ Subtree(f, d.at) = Subtree(f, s.at)

\* C19: when an action of synchronize_partially that synchronizes a
\* directory is over, and when synchronize_backup has returned Ok, the
\* destination directory holds exactly what the source directory holds:
\* what was missing is there, what differed is as in the source, what the
\* source does not hold is gone, and the entries of the source are directly
\* in the destination directory (not under a directory of the name of the
\* source), with a source path that ends with a separator and with one that
\* does not.
C19_DestinationIsAMirror ==
    /\ tool = "partial" =>
         \A i \in 1..Len(actions) :
            (/\ actions[i].operation \in {"SynchronizeDir", "RemoveDestFileAndCopyDir"}
             /\ JustDone(i)) =>
                MirrorOf(fs, actions[i].src_path, actions[i].dst_path)
    /\ (tool = "backup" /\ pc = "done" /\ result = "ok") =>
         MirrorOf(fs, args.src_dir_path, final)

\* The update of a destination directory (source path without a separator
\* at its end): an entry was missing, one differed and one was not in the
\* source.
C19_Witness ==
    /\ tool = "partial" /\ pc = "done" /\ result = "ok"
    /\ args.subpaths = <<"colors">> /\ actions[1].operation = "SynchronizeDir"
    /\ DstKind0(1) = "dir"
    /\ <<"bar", "colors", "red">> \notin DOMAIN fs0 /\ <<"bar", "colors", "red">> \in DOMAIN fs
    /\ fs0[<<"bar", "colors", "dark">>].kind = "link" /\ fs[<<"bar", "colors", "dark">>].kind = "dir"
    /\ <<"bar", "colors", "light">> \in DOMAIN fs0 /\ <<"bar", "colors", "light">> \notin DOMAIN fs
    /\ <<"bar", "colors", "colors">> \notin DOMAIN fs
    /\ MirrorOf(fs, "foo/colors", "bar/colors")

\* The same with source paths that end with a separator, in each program.
C19_WithSeparatorPartial ==
    /\ tool = "partial" /\ pc = "done" /\ result = "ok"
    /\ args.subpaths = <<SlashSubpath>> /\ DstKind0(1) = "dir"
    /\ EndsWithSlash(actions[1].src_path)
    /\ MirrorOf(fs, "foo/colors", "bar/colors") /\ fs # fs0
C19_WithSeparatorBackup ==
    /\ tool = "backup" /\ pc = "done" /\ result = "ok"
    /\ EndsWithSlash(args.src_dir_path)
    /\ MirrorOf(fs, "foo/colors", final) /\ fs # fs0


-----------------------------------------------------------------------------
(* C20: synchronize_partially on what is already synchronized.             *)

\* Every subpath of the list is a directory of the source of which the
\* destination already holds an identical copy.
AlreadyMirrored ==
    /\ args.subpaths # <<>>
    /\ AllRelative /\ PrefixesAreDirectories
    /\ \A i \in SubpathIndexes :
         SrcKind0(i) = "dir" /\ MirrorOf(fs0, SrcPath(i), DstPath(i))

\* A run on mirrored directories plans a synchronization for each and
\* leaves the file system as it is, at every step.
MirroredStaysMirrored ==
    (tool = "partial" /\ AlreadyMirrored) =>
        /\ \A i \in SubpathIndexes : SubpathPlan(i) = Planned("SynchronizeDir")
        /\ result \in {"running", "ok", "failed to write to stdout",
                       "failed to synchronize"}
        /\ fs = fs0

FirstRunOk == tool = "partial" /\ runs = 1 /\ pc = "done" /\ result = "ok"
SecondRunOk == tool = "partial" /\ runs = 2 /\ pc = "done" /\ result = "ok"

\* C20: a run of synchronize_partially whose subpaths are directories that
\* the destination already mirrors changes nothing; and when a call that
\* returned Ok is made again and returns Ok, the file system after the
\* second run is what it was after the first.
C20_SecondRunChangesNothing ==
    /\ []MirroredStaysMirrored
    /\ [](FirstRunOk => [](SecondRunOk => fs = fs0))

\* The second of two successful runs on a directory and a nested directory:
\* the destination was already a mirror and rsync was called again.
C20_Witness ==
    /\ SecondRunOk /\ AlreadyMirrored
    /\ args.subpaths = <<"colors", "colors/dark">>
    /\ Len(Calls) = 2 /\ Calls[1].op = "rsync" /\ Calls[2].op = "rsync"
    /\ fs = fs0


-----------------------------------------------------------------------------
(* C21: what a run does to its sources.                                    *)

\* The path s leads to what it led to when the run started: the symlinks
\* of its chain are the same, and the entry it leads to holds the same
\* entries, no more and no less.
SourceSame(s) ==
    LET r == Resolve(fs0, s, TRUE) IN
    /\ \A q \in Chain(fs0, s) : q \in DOMAIN fs /\ fs[q] = fs0[q]
    /\ Resolve(fs, s, TRUE) = r
    /\ r.st = "found" => Restrict(fs, Under(fs, r.at)) = Restrict(fs0, Under(fs0, r.at))

SourcesSame ==
    IF tool = "backup" THEN SourceSame(args.src_dir_path)
    ELSE \A i \in SubpathIndexes : SourceSame(SrcPath(i))

Related(p, q) == IsPrefix(p, q) \/ IsPrefix(q, p)

\* Where the run may write is apart from where its sources are: the final
\* directory and the dated directories of synchronize_backup, the
\* destination paths of synchronize_partially and what they lead to, are
\* neither a source, nor under one, nor above one.
DestinationsApart ==
    IF tool = "backup"
    THEN (SrcDirIsOk0 /\ ReadDir(fs0, args.dst_dir_path).ok) =>
            \A n \in {FinalName0} \cup DatedDirectories0 :
                ~Related(Append(DstDir0, n), SrcDir0)
    ELSE \A i \in SubpathIndexes, j \in SubpathIndexes :
            LET s == Resolve(fs0, SrcPath(j), TRUE) IN
            \A follow \in BOOLEAN :
                LET d == Resolve(fs0, DstPath(i), follow) IN
                (s.st = "found" /\ d.st # "err") => ~Related(d.at, s.at)

\* C21 as stated: whatever the arguments, at every step of a run of either
\* program, and after it, successful or failed, nothing at or under a
\* source path is created, removed, renamed or modified.
C21_SourcesAreNeverChanged == SourcesSame

\* C21, amended: the same, for arguments whose destinations are apart from
\* the sources (a destination directory that is the source directory makes
\* synchronize_backup create the dated directory inside the source).
C21_SourcesApartAreNotChanged == DestinationsApart => SourcesSame

\* A successful run of synchronize_backup into the directory that holds the
\* source: the dated directory is beside the source, which is what it was.
C21_Witness ==
    /\ tool = "backup" /\ pc = "done" /\ result = "ok"
    /\ args.dst_dir_path = "foo" /\ args.src_dir_path = "foo/colors"
    /\ DestinationsApart
    /\ fs # fs0 /\ MirrorOf(fs, "foo/colors", final)
    /\ SourceSame(args.src_dir_path)


-----------------------------------------------------------------------------
(* C25: what a planned action finds at its destination.                    *)

\* The action at idx is about to start and its destination is of a kind its
\* operation was planned for.
FindsThePlannedKind ==
    LET a == actions[idx] IN
    CASE a.operation = "RemoveDestFileAndCopyDir" ->
           SymlinkMetadata(fs, a.dst_path) = "file"
      [] a.operation = "RemoveDestDirAndCopyFile" ->
           SymlinkMetadata(fs, a.dst_path) = "dir"
      [] a.operation = "SynchronizeDir" -> Metadata(fs, a.dst_path) # "file"
      [] OTHER -> Metadata(fs, a.dst_path) # "dir"

\* The destination paths of the list are apart: none is another one, none
\* is under another one, none leads through its symlinks to another one or
\* under it.
DestinationsOfTheListApart ==
    \A i \in SubpathIndexes, j \in SubpathIndexes :
        i # j =>
            \A fi \in BOOLEAN, fj \in BOOLEAN :
                LET di == Resolve(fs0, DstPath(i), fi)
                    dj == Resolve(fs0, DstPath(j), fj)
                IN  (di.st # "err" /\ dj.st # "err") => ~Related(di.at, dj.at)

\* C25 as stated: for every list of subpaths, a subpath listed twice and
\* nested subpaths included, an action that starts finds at its destination
\* the kind of its plan.
C25_PlannedKindIsFound ==
    (tool = "partial" /\ pc = "exec") => FindsThePlannedKind

\* C25, amended: the same for the lists whose destination paths are apart.
\* (A subpath listed twice is planned twice on the same entry, and the first
\* action changes what the second one was planned for.)
C25_PlannedKindIsFoundWhenApart ==
    (tool = "partial" /\ pc = "exec" /\ DestinationsOfTheListApart)
        => FindsThePlannedKind

\* The second action of a list of two starts with a removal, after the
\* first one has changed the destination of its own subpath.
C25_Witness ==
    /\ tool = "partial" /\ pc = "exec" /\ idx = 2
    /\ DestinationsOfTheListApart
    /\ actions[1].operation = "RemoveDestFileAndCopyDir"
    /\ actions[2].operation = "RemoveDestDirAndCopyFile"
    /\ SymlinkMetadata(fs, actions[1].dst_path) = "dir"
    /\ FindsThePlannedKind


-----------------------------------------------------------------------------
(* C26: the dated directories of the destination, run after run.           *)

\* The real directories of the destination directory named after the
\* source, as the run has left them.
DatedDirectoriesNow ==
    {n \in Children(fs, DstDir0) :
       KindAt(fs, Append(DstDir0, n)) = "dir" /\ NamedAfter(n, FileName(args.src_dir_path))}

\* C26 as stated: a run of synchronize_backup that starts with at most one
\* dated directory named after the source in the destination directory does
\* not fail on several candidates and, when it succeeds, leaves exactly one,
\* the final name of the run.  Each successful run so hands to the next one,
\* whatever its time, a destination with one candidate.
C26_OneDatedDirectoryAfterEachRun ==
    (/\ tool = "backup" /\ SrcDirIsOk0 /\ ReadDir(fs0, args.dst_dir_path).ok
     /\ Cardinality(DatedDirectories0) <= 1) =>
        /\ result # "there are several candidates"
        /\ (pc = "done" /\ result = "ok") => DatedDirectoriesNow = {FinalName0}

\* What holds of C26: the same, for a source whose base name holds no line
\* feed.
C26_HoldsOfPlainNames ==
    (tool = "backup" /\ HasFileName(args.src_dir_path)
                     /\ HasLineFeed(FileName(args.src_dir_path)))
        \/ C26_OneDatedDirectoryAfterEachRun

\* Two successful runs at different times for a plain name: the second one
\* found the directory of the first and renamed it.
C26_PlainNamesReached ==
    /\ tool = "backup" /\ pc = "done" /\ result = "ok" /\ runs = 2
    /\ ~HasLineFeed(FileName(args.src_dir_path))
    /\ Cardinality(DatedDirectories0) = 1 /\ DatedDirectories0 # {FinalName0}
    /\ DatedDirectoriesNow = {FinalName0}


-----------------------------------------------------------------------------
(* C27: where a rename goes.                                               *)

FinalDirExists0 == SymlinkMetadata(fs0, FinalPath0) = "dir"
Renames == SelectSeq(Calls, LAMBDA c : c.op = "rename")

\* C27 as stated: in a run of synchronize_backup, a rename is only made
\* from the one candidate to the final path, which was absent when the run
\* started or is that candidate.  A final directory that exists is one of
\* the candidates; with another dated directory named after the source, the
\* run ends with the several-candidates error and renames nothing.
C27_RenameOnlyOntoAFreePath ==
    (tool = "backup" /\ SrcDirIsOk0 /\ ReadDir(fs0, args.dst_dir_path).ok) =>
        /\ \A i \in 1..Len(Renames) :
             /\ candidates = {Renames[i].a}
             /\ Renames[i].b = FinalPath0
             /\ \/ SymlinkMetadata(fs0, FinalPath0) = "none"
                \/ Renames[i].a = FinalPath0
        /\ Len(Renames) <= 1
        /\ (FinalDirExists0 /\ CandidatesResolved) => FinalPath0 \in candidates
        /\ (FinalDirExists0 /\ DatedDirectories0 # {FinalName0}) =>
             /\ Renames = <<>>
             /\ pc = "done" => result = "there are several candidates"

\* What holds of C27: the same, for a source whose base name holds no line
\* feed.
C27_HoldsOfPlainNames ==
    (tool = "backup" /\ HasFileName(args.src_dir_path)
                     /\ HasLineFeed(FileName(args.src_dir_path)))
        \/ C27_RenameOnlyOntoAFreePath

\* For a plain name: a rename onto a free final path, a rename of the final
\* directory onto itself, and a final directory beside another dated one.
C27_RenamedOntoFreePath ==
    /\ tool = "backup" /\ ~HasLineFeed(FileName(args.src_dir_path))
    /\ Len(Renames) = 1 /\ Renames[1].ok /\ Renames[1].a # FinalPath0
    /\ SymlinkMetadata(fs0, FinalPath0) = "none"
C27_RenamedOntoItself ==
    /\ tool = "backup" /\ ~HasLineFeed(FileName(args.src_dir_path))
    /\ Len(Renames) = 1 /\ Renames[1].ok /\ Renames[1].a = FinalPath0
    /\ FinalDirExists0
C27_FinalBesideAnother ==
    /\ tool = "backup" /\ ~HasLineFeed(FileName(args.src_dir_path))
    /\ FinalDirExists0 /\ Cardinality(DatedDirectories0) = 2
    /\ pc = "done" /\ result = "there are several candidates"


-----------------------------------------------------------------------------
(* C28: a synchronization that fails after a rename.                       *)

\* The last call of the run is an rsync that failed (not spawned, or ended
\* with a non-zero status), after a rename that succeeded.
SyncFailedAfterRename ==
    /\ tool = "backup" /\ pc = "done"
    /\ Len(Calls) = 2
    /\ Calls[1].op = "rename" /\ Calls[1].ok
    /\ Calls[2].op = "rsync" /\ ~Calls[2].ok

\* C28: when rsync fails after a candidate was renamed, the run returns the
\* error of the synchronization and the rename stays: the final path is a
\* directory, the old name of the candidate (when it is another name) is no
\* longer in the destination directory, and no elapsed time is written
\* after the call of rsync.
C28_FailedSyncKeepsTheRename ==
    SyncFailedAfterRename =>
        /\ result = "failed to synchronize"
        /\ SymlinkMetadata(fs, Calls[1].b) = "dir"
        /\ Calls[1].b = FinalPath0
        /\ Calls[1].a # Calls[1].b => SymlinkMetadata(fs, Calls[1].a) = "none"
        /\ trace[Len(trace)] = Calls[2]
        /\ \A i \in 1..Len(trace) : trace[i] # Printed("Elapsed time")

\* rsync ended with a non-zero status, or could not be spawned, after the
\* directory of August was renamed to the name of December.
C28_Witness ==
    /\ SyncFailedAfterRename
    /\ Calls[1].a = "bar/colors_2022-08-09-10h11"
    /\ Calls[1].b = "bar/colors_2022-12-13-14h15"
    /\ SymlinkMetadata(fs0, Calls[1].a) = "dir"
    /\ SymlinkMetadata(fs, Calls[1].a) = "none"
    /\ SymlinkMetadata(fs, Calls[1].b) = "dir"
    /\ result = "failed to synchronize"


-----------------------------------------------------------------------------
(* C23: backup plans before it copies.                                     *)

CopyIndexes == 1..Len(args.src_paths)
DatedPath(i) ==
    WithFileName(args.src_paths[i],
                 FileName(args.src_paths[i]) \o get_dst_path_suffix(args.now))
NoName0(i) == ~HasFileName(args.src_paths[i])
Unresolved0(i) == Metadata(fs0, args.src_paths[i]) = "none"
DatedPathExists0(i) ==
    HasFileName(args.src_paths[i]) /\ SymlinkMetadata(fs0, DatedPath(i)) # "none"
Offending0(i) == NoName0(i) \/ Unresolved0(i) \/ DatedPathExists0(i)

\* C23: when a path of the list has no name, leads to nothing (it is
\* missing or a broken symlink) or has something at its dated path (a
\* directory, a file or a symlink, dangling or not), the call of backup
\* fails with one of the three errors of planning and copies nothing, the
\* valid paths listed before the offending one included: no call is made
\* and the file system stays what it was.
C23_NoCopyWhenAPathIsRefused ==
    (tool = "copy" /\ \E i \in CopyIndexes : Offending0(i)) =>
        /\ Calls = <<>>
        /\ fs = fs0
        /\ result # "ok"
        /\ pc = "done" =>
             result \in {"does not have a name", "failed to read metadata", "already exists"}

\* A file that could be copied is listed first, then a directory whose
\* dated path is a dangling symlink: the call fails, nothing is copied.
C23_Witness ==
    /\ tool = "copy" /\ pc = "done" /\ result = "already exists"
    /\ Len(args.src_paths) = 2
    /\ ~Offending0(1) /\ Metadata(fs0, args.src_paths[1]) = "file"
    /\ Metadata(fs0, args.src_paths[2]) = "dir"
    /\ SymlinkMetadata(fs0, DatedPath(2)) = "link" /\ Metadata(fs0, DatedPath(2)) = "none"
    /\ SymlinkMetadata(fs, DatedPath(1)) = "none"
    /\ Calls = <<>> /\ fs = fs0

\* Both copies made: a directory and a file.
C23_BothCopied ==
    /\ tool = "copy" /\ pc = "done" /\ result = "ok"
    /\ Len(Calls) = 2 /\ Calls[1].ok /\ Calls[2].ok
    /\ \E i \in CopyIndexes : SymlinkMetadata(fs, DatedPath(i)) = "dir"
    /\ \E i \in CopyIndexes : SymlinkMetadata(fs, DatedPath(i)) = "file"


-----------------------------------------------------------------------------
(* C22: two runs of synchronize_backup at once.                            *)

\* Both runs have looked at the destination directory and have seen the
\* same thing: the same final path, absent, and the same one candidate.
SameObservation ==
    /\ \A p \in Procs : race[p].pc \in {"rename", "sync", "done"}
    /\ race[1].final = race[2].final
    /\ race[1].candidates = race[2].candidates
    /\ Cardinality(race[1].candidates) = 1
    /\ race[1].final \notin race[1].candidates
    /\ SymlinkMetadata(fs0, race[1].final) = "none"

PastRename(p) == race[p].pc \in {"sync", "done"}
RenameOf(p) == race[p].calls[1]

\* C22: nothing keeps the two runs apart.  When both have seen the same
\* absent final path and the same one candidate, neither waits for the other:
\* each one that goes on calls rename, and both calls are the same rename of
\* that candidate to that final path.  The first call succeeds; the second
\* one finds the candidate gone, and its run ends with the error of the
\* rename.
C22_BothRunsAttemptTheSameRename ==
    (race # NotStarted /\ SameObservation) =>
        /\ \A p \in Procs :
             PastRename(p) =>
                /\ race[p].calls # <<>>
                /\ RenameOf(p).op = "rename"
                /\ {RenameOf(p).a} = race[p].candidates
                /\ RenameOf(p).b = race[p].final
        /\ (PastRename(1) /\ PastRename(2)) =>
             /\ RenameOf(1).a = RenameOf(2).a /\ RenameOf(1).b = RenameOf(2).b
             /\ RenameOf(1).ok # RenameOf(2).ok
             /\ \E p \in Procs : race[p].result = "failed to renamed"

\* The two runs saw bar/colors_2022-08-09-10h11 as the candidate and no
\* bar/colors_2022-12-13-14h15 before either of them had changed anything,
\* and both called rename.
C22_Witness ==
    /\ race # NotStarted /\ SameObservation
    /\ race[1].candidates = {"bar/colors_2022-08-09-10h11"}
    /\ race[1].final = "bar/colors_2022-12-13-14h15"
    /\ PastRename(1) /\ PastRename(2)
    /\ RenameOf(1).ok /\ ~RenameOf(2).ok
    /\ race[2].result = "failed to renamed"
    /\ SymlinkMetadata(fs, "bar/colors_2022-12-13-14h15") = "dir"

\* Before either run acts: both are about to rename, the file system is
\* what it was.
C22_BothAboutToRename ==
    /\ race # NotStarted /\ SameObservation
    /\ race[1].pc = "rename" /\ race[2].pc = "rename"
    /\ fs = fs0


-----------------------------------------------------------------------------
(* C24: what the renamer asks and what it returns.                         *)

\* The dated path of number n for the file and the day of the run.
DatedPathOfNumber(n) == get_candidate(ren.file_path, FormatDate(ren.now), n)

\* The smallest positive number whose dated path did not exist.
SmallestFree ==
    CHOOSE n \in 1..(MaxNumber + 1) :
        /\ DatedPathOfNumber(n) \notin ren.files0
        /\ \A m \in 1..(n - 1) : DatedPathOfNumber(m) \in ren.files0

\* The requests of a run that goes to its end: the clock, then the
\* existence of the dated paths of numbers 1, 2, 3, ... up to the first
\* that does not exist.
ExpectedRequests ==
    <<AskedNow>> \o [n \in 1..SmallestFree |-> AskedExists(DatedPathOfNumber(n))]

IsPrefixOf(a, b) == Len(a) <= Len(b) /\ a = SubSeq(b, 1, Len(a))
WorkReturned == ren.pc \in {"returned", "done"} /\ ren.err \notin
                    {"failed to determine the local offset", "failed to get the existence"}

\* C24: for the coroutine resumed until Yield::Return and for
\* generic_renamer::work alike.  With a size of 42 bytes or more, the clock
\* is asked once, then the existence of <file_path>.<YYYY-MM-DD>.<n> for
\* n = 1, 2, 3, ... in that order, nothing else and nothing after the first
\* path that does not exist; what is returned is the rename to that path,
\* the one of the smallest positive n that does not exist.  With a size
\* below 42, nothing is asked and no rename is returned.
C24_RenamerAsksInOrderAndReturnsTheSmallest ==
    ren # NotStarted =>
        IF ren.size >= 42
        THEN /\ IsPrefixOf(ren.asked, ExpectedRequests)
             /\ WorkReturned =>
                  /\ ren.asked = ExpectedRequests
                  /\ ren.action = RenameTo(DatedPathOfNumber(SmallestFree))
        ELSE /\ ren.asked = <<>>
             /\ ren.action = None
             /\ ren.pc = "done" => (ren.err = "" /\ ren.files = ren.files0)

\* tests::demo with the coroutine: the numbers 1 and 2 of the day exist, the
\* clock and three paths were asked, app.log was renamed to number 3.
C24_Witness ==
    /\ ren # NotStarted /\ ren.driver = "coroutine" /\ ren.pc = "done"
    /\ ren.size = 300
    /\ {n \in 1..MaxNumber : DatedPathOfNumber(n) \in ren.files0} = {1, 2}
    /\ Len(ren.asked) = 4
    /\ ren.action = RenameTo("app.log.2011-12-13.3")
    /\ "app.log.2011-12-13.3" \in ren.files /\ "app.log" \notin ren.files

\* The same with generic_renamer::work, and a small file with each.
C24_GenericReached ==
    /\ ren # NotStarted /\ ren.driver = "generic" /\ ren.pc = "done"
    /\ ren.size = 42 /\ SmallestFree = 4
    /\ ren.action = RenameTo(DatedPathOfNumber(4)) /\ Len(ren.asked) = 5
C24_SmallFileReached ==
    /\ ren # NotStarted /\ ren.pc = "done" /\ ren.size = 41
    /\ ren.asked = <<>> /\ ren.action = None

-----------------------------------------------------------------------------
(* C29 - the jobs of the thread pool                                       *)

AllJobsReturn == \A j \in JobIds : pool.jobs[j] = "returns"

\* Every thread has ended: the main thread is out of drop (it returned or
\* panicked in it) and every worker left its loop or panicked.
PoolOver ==
    /\ pool.main \in {"dropped", "panicked"}
    /\ \A w \in Workers : pool.worker[w].pc \in {"exited", "panicked"}

\* No job was called twice or by two workers.
NoJobRunTwice ==
    \A j \in JobIds : pool.called[j] <= 1 /\ Cardinality(pool.by[j]) <= 1

\* A job passed to execute is in the channel and was not called, or is out
\* of the channel and was called.
SentJobsAreQueuedOrCalled ==
    \A j \in 1..pool.sent :
        LET queued == Cardinality({k \in 1..Len(pool.queue) : pool.queue[k] = j})
        IN queued + pool.called[j] = 1

NoJobLost == PoolOver => \A j \in JobIds : pool.called[j] = 1

\* C29: every job passed to execute before the pool is dropped is run
\* exactly once, by exactly one worker: none is run twice at any moment, and
\* once every thread has ended none was left without being run -- for every
\* thread_count and every interleaving.
C29_EveryJobRunExactlyOnce ==
    pool # NotStarted => NoJobRunTwice /\ NoJobLost

\* C29 for jobs that all return: the statement holds.
C29_HoldsWhenEveryJobReturns ==
    pool # NotStarted =>
        /\ NoJobRunTwice /\ SentJobsAreQueuedOrCalled
        /\ AllJobsReturn => NoJobLost

\* Two workers have each run a job and every thread has ended.
C29_TwoWorkersRanJobs ==
    /\ pool # NotStarted /\ PoolOver /\ AllJobsReturn
    /\ \E i, j \in JobIds : pool.by[i] = {0} /\ pool.by[j] = {1}

\* The pool is over and a job was never called: a job that panicked ended
\* the only worker.
C29_JobLeftInTheChannel ==
    /\ pool # NotStarted /\ PoolOver
    /\ pool.jobs = <<"panics", "returns">> /\ pool.thread_count = 1
    /\ pool.called[2] = 0 /\ pool.queue = <<2>>

-----------------------------------------------------------------------------
(* C30 - dropping the thread pool                                          *)

DropReturned == pool # NotStarted /\ pool.main = "dropped"

\* A worker that left its loop saw the channel empty with the Sender
\* dropped.
DisconnectedOnlyWhenEmpty ==
    \A w \in Workers :
        pool.worker[w].pc = "exited" => pool.queue = <<>> /\ ~pool.sender

\* When drop has returned every job has completed, every worker has left
\* its loop and the mutex is free.
NothingLeftWhenDropped ==
    DropReturned =>
        /\ pool.completed = JobIds
        /\ pool.queue = <<>>
        /\ \A w \in Workers : pool.worker[w].pc = "exited"
        /\ pool.lock = Free

\* C30: provided every job returns, dropping the pool terminates (every
\* join in drop returns); a worker sees the channel as disconnected only
\* after all queued jobs were taken; when drop has returned, all the jobs
\* have completed and no worker is left running or blocked on the mutex or
\* on the channel.
C30_DropTerminates ==
    /\ [](pool # NotStarted /\ AllJobsReturn =>
              DisconnectedOnlyWhenEmpty /\ NothingLeftWhenDropped)
    /\ (pool # NotStarted /\ AllJobsReturn) ~> DropReturned

\* drop has returned from a pool of two workers that was given jobs, and
\* each worker had run one.
C30_Witness ==
    /\ DropReturned /\ AllJobsReturn
    /\ pool.thread_count = 2 /\ Len(pool.jobs) >= 2
    /\ \E i, j \in JobIds : pool.by[i] = {0} /\ pool.by[j] = {1}

=============================================================================
